---- MODULE Spec2Model ----
(***************************************************************************)
(* A model of the pubnet network container (pubnet/network/__init__.py),   *)
(* its node collections (pubnet/network/_node.py) and its array-backed     *)
(* edge collections (pubnet/network/_edge/numpy_edge.py).                  *)
(*                                                                         *)
(* Python objects live in a heap of references, so that two containers     *)
(* that hold the same Node or Edge object see each other's set_data.       *)
(* A call that raises is modelled by a result whose exc field names the    *)
(* exception; the heap it carries holds whatever the call changed before   *)
(* it raised.                                                              *)
(***************************************************************************)
EXTENDS Integers, Sequences, FiniteSets, TLC

VARIABLES heap, nets, last

vars == <<heap, nets, last>>

(***************************************************************************)
(* Bounds of the model.                                                    *)
(***************************************************************************)
MaxPub == 2
MaxOther == 2
MaxRows == 2
MaxSteps == 3

PubIds == 1..MaxPub
OtherIds == 1..MaxOther
AllIds == 1..(IF MaxPub > MaxOther THEN MaxPub ELSE MaxOther)

(***************************************************************************)
(* Names.                                                                  *)
(***************************************************************************)
NodeOrder == <<"Author", "Chemical", "Publication">>
NodeTypes == {NodeOrder[i] : i \in 1..Len(NodeOrder)}
Rank(n) == CHOOSE i \in 1..Len(NodeOrder) : NodeOrder[i] = n

EDGE_KEY_DELIM == "-"

edge_key(node_1, node_2) ==
  IF Rank(node_1) <= Rank(node_2)
    THEN node_1 \o EDGE_KEY_DELIM \o node_2
    ELSE node_2 \o EDGE_KEY_DELIM \o node_1

Slots == {"a", "b", "sub", "subsub"}
NoNet == [absent |-> TRUE]

(***************************************************************************)
(* The heap.                                                               *)
(***************************************************************************)
MaxObj == 24
Refs == 1..MaxObj
FreeObj == [kind |-> "free"]

NodeObj(features, rows) ==
  [kind |-> "node", features |-> features, rows |-> rows]

EdgeObj(start_id, end_id, data, ndim) ==
  [kind |-> "edge", start_id |-> start_id, end_id |-> end_id,
   data |-> data, ndim |-> ndim]

Range(f) == {f[x] : x \in DOMAIN f}

NetRefs(net) ==
  IF net = NoNet THEN {} ELSE Range(net.node_data) \cup Range(net.edge_data)

LiveRefs(ns) == UNION {NetRefs(ns[s]) : s \in DOMAIN ns}

Collect(h, ns) ==
  [r \in Refs |-> IF r \in LiveRefs(ns) THEN h[r] ELSE FreeObj]

Min(S) == CHOOSE x \in S : \A y \in S : x <= y

RECURSIVE SetToSeq(_)
SetToSeq(S) ==
  IF S = {} THEN <<>> ELSE <<Min(S)>> \o SetToSeq(S \ {Min(S)})

IndexOf(seq, x) == CHOOSE i \in 1..Len(seq) : seq[i] = x

Ok(h) == [exc |-> "", heap |-> h]
Raise(e, h) == [exc |-> e, heap |-> h]

(***************************************************************************)
(* Edge collections, array backend.                                        *)
(***************************************************************************)
Edge__column_to_int(e, key) ==
  IF key = e.start_id THEN [exc |-> "", val |-> 1]
  ELSE IF key = e.end_id THEN [exc |-> "", val |-> 2]
  ELSE [exc |-> "KeyError", val |-> 0]

NumpyEdge___len__(e) == IF e.ndim = 2 THEN Len(e.data) ELSE 0

NumpyEdge_column(e, key) ==
  LET c == Edge__column_to_int(e, key) IN
  IF c.exc # "" THEN [exc |-> c.exc, val |-> <<>>]
  ELSE IF e.ndim # 2 THEN [exc |-> "IndexError", val |-> <<>>]
  ELSE [exc |-> "", val |-> [i \in 1..Len(e.data) |-> e.data[i][c.val]]]

NumpyEdge_isin_end_column(e, column, test_elements) ==
  LET col == NumpyEdge_column(e, e.end_id) IN
  IF col.exc # "" THEN col
  ELSE [exc |-> "",
        val |-> [i \in 1..Len(col.val) |-> col.val[i] \in test_elements]]

NumpyEdge_isin(e, column, test_elements) ==
  LET col == NumpyEdge_column(e, column) IN
  IF col.exc # "" THEN col
  ELSE [exc |-> "",
        val |-> [i \in 1..Len(col.val) |-> col.val[i] \in test_elements]]

RECURSIVE MaskRows(_, _, _)
MaskRows(rows, mask, i) ==
  IF i > Len(rows) THEN <<>>
  ELSE (IF mask[i] THEN <<rows[i]>> ELSE <<>>) \o MaskRows(rows, mask, i + 1)

NumpyEdge___getitem__rows(e, mask) ==
  EdgeObj(e.start_id, e.end_id, MaskRows(e.data, mask, 1), 2)

asarray_rows(new_data) ==
  [data |-> new_data.data, ndim |-> IF Len(new_data.data) = 0 THEN 1 ELSE 2]

NumpyEdge_set_data(e, new_data) ==
  LET arr == asarray_rows(new_data) IN
  [e EXCEPT !.data = arr.data, !.ndim = arr.ndim]

(* numpy compares the two arrays elementwise after broadcasting their      *)
(* shapes; shapes that do not broadcast make the comparison fail.          *)
Broadcasts(n, m) == n = m \/ n = 1 \/ m = 1

BroadcastLen(n, m) == IF n = 1 THEN m ELSE n

BroadcastAt(seq, i) == IF Len(seq) = 1 THEN seq[1] ELSE seq[i]

array_equal_all(x, y) ==
  IF ~Broadcasts(Len(x), Len(y)) THEN [exc |-> "ShapeError", val |-> FALSE]
  ELSE [exc |-> "",
        val |-> \A i \in 1..BroadcastLen(Len(x), Len(y)) :
                  BroadcastAt(x, i) = BroadcastAt(y, i)]

NumpyEdge_isequal(e, other) ==
  IF e.start_id # other.start_id THEN [exc |-> "", val |-> FALSE]
  ELSE IF e.end_id # other.end_id THEN [exc |-> "", val |-> FALSE]
  ELSE IF e.ndim # other.ndim THEN [exc |-> "ShapeError", val |-> FALSE]
  ELSE array_equal_all(e.data, other.data)

(***************************************************************************)
(* Node collections.                                                       *)
(***************************************************************************)
Node___len__(n) == Len(n.rows)

Node_index(n) == [i \in 1..Len(n.rows) |-> n.rows[i].id]

Node_feature_vector(n, name) ==
  IF \E i \in 1..Len(n.features) : n.features[i] = name
    THEN [exc |-> "", val |-> [i \in 1..Len(n.rows) |-> n.rows[i].val]]
    ELSE [exc |-> "KeyError", val |-> <<>>]

Node___getitem__mask(n, mask) == NodeObj(n.features, MaskRows(n.rows, mask, 1))

Node_set_data(n, new_data) == [n EXCEPT !.rows = new_data.rows]

np_isin(values, test_elements) ==
  [i \in 1..Len(values) |-> values[i] \in test_elements]

Node_isequal(n, node_2) ==
  IF Len(n.features) # Len(node_2.features)
    THEN [exc |-> "ValueError", val |-> FALSE]
  ELSE IF n.features # node_2.features THEN [exc |-> "", val |-> FALSE]
  ELSE IF n.features = <<>> THEN [exc |-> "", val |-> TRUE]
  ELSE array_equal_all(Node_feature_vector(n, n.features[1]).val,
                       Node_feature_vector(node_2, n.features[1]).val)

(***************************************************************************)
(* The network container.                                                  *)
(***************************************************************************)
PubNetObj(root, nodes, edges, node_data, edge_data) ==
  [root |-> root, nodes |-> nodes, edges |-> edges,
   node_data |-> node_data, edge_data |-> edge_data]

SeqSet(seq) == {seq[i] : i \in 1..Len(seq)}

(* The collections of a container by value: what a caller can observe.     *)
View(h, net) ==
  IF net = NoNet THEN NoNet
  ELSE [root |-> net.root, nodes |-> net.nodes, edges |-> net.edges,
        node_data |-> [k \in DOMAIN net.node_data |-> h[net.node_data[k]]],
        edge_data |-> [k \in DOMAIN net.edge_data |-> h[net.edge_data[k]]]]

FreeRefs(h) == {r \in Refs : h[r] = FreeObj}

deepcopy(h, net) ==
  LET old == SetToSeq(NetRefs(net))
      fresh == SetToSeq(FreeRefs(h))
      to == [r \in NetRefs(net) |-> fresh[IndexOf(old, r)]]
      from == [r \in {to[o] : o \in NetRefs(net)} |->
                 CHOOSE o \in NetRefs(net) : to[o] = r]
  IN [heap |-> [r \in Refs |-> IF r \in DOMAIN from THEN h[from[r]] ELSE h[r]],
      net |-> [net EXCEPT
                 !.node_data = [k \in DOMAIN net.node_data |-> to[net.node_data[k]]],
                 !.edge_data = [k \in DOMAIN net.edge_data |-> to[net.edge_data[k]]]]]

(* First loop of _slice: every edge collection, in key-list order.         *)
RECURSIVE SliceEdges(_, _, _, _)
SliceEdges(h, net, root_ids, i) ==
  IF i > Len(net.edges) THEN Ok(h)
  ELSE LET key == net.edges[i] IN
    IF key \notin DOMAIN net.edge_data THEN Raise("KeyError", h)
    ELSE LET ref == net.edge_data[key]
             mask == NumpyEdge_isin(h[ref], net.root, root_ids)
         IN IF mask.exc # "" THEN Raise(mask.exc, h)
            ELSE SliceEdges(
                   [h EXCEPT ![ref] = NumpyEdge_set_data(
                      h[ref], NumpyEdge___getitem__rows(h[ref], mask.val))],
                   net, root_ids, i + 1)

SliceNodeIds_root_from_edges(h, net, key, root_ids) ==
  LET ek == edge_key(key, net.root) IN
  IF ek \notin DOMAIN net.edge_data
    THEN [exc |-> "", skip |-> TRUE, val |-> {}]
  ELSE LET edge == h[net.edge_data[ek]] IN
    IF NumpyEdge___len__(edge) = 0
      THEN [exc |-> "", skip |-> TRUE, val |-> {}]
    ELSE LET col == NumpyEdge_column(edge, key) IN
      [exc |-> col.exc, skip |-> FALSE, val |-> SeqSet(col.val)]

(* The identifiers _slice keeps for the node type key: skip means the      *)
(* loop continues without touching the node collection.                    *)
SliceNodeIds(h, net, key, root_ids) ==
  IF key = net.root THEN [exc |-> "", skip |-> FALSE, val |-> root_ids]
  ELSE LET ek == edge_key(key, net.root) IN
    IF ek \notin DOMAIN net.edge_data
      THEN [exc |-> "", skip |-> TRUE, val |-> {}]
    ELSE LET edge == h[net.edge_data[ek]] IN
      IF NumpyEdge___len__(edge) = 0
        THEN [exc |-> "", skip |-> TRUE, val |-> {}]
      ELSE LET col == NumpyEdge_column(edge, key) IN
        [exc |-> col.exc, skip |-> FALSE, val |-> SeqSet(col.val)]

(* Second loop of _slice: every node collection, in key-list order.        *)
RECURSIVE SliceNodes(_, _, _, _)
SliceNodes(h, net, root_ids, i) ==
  IF i > Len(net.nodes) THEN Ok(h)
  ELSE LET key == net.nodes[i] IN
    IF key \notin DOMAIN net.node_data THEN Raise("KeyError", h)
    ELSE LET ref == net.node_data[key] IN
      IF Node___len__(h[ref]) = 0 THEN SliceNodes(h, net, root_ids, i + 1)
      ELSE LET node_ids == SliceNodeIds(h, net, key, root_ids) IN
        IF node_ids.exc # "" THEN Raise(node_ids.exc, h)
        ELSE IF node_ids.skip THEN SliceNodes(h, net, root_ids, i + 1)
        ELSE LET node_locs == np_isin(Node_index(h[ref]), node_ids.val)
             IN SliceNodes(
                  [h EXCEPT ![ref] = Node_set_data(
                     h[ref], Node___getitem__mask(h[ref], node_locs))],
                  net, root_ids, i + 1)

SliceInPlace(h, net, root_ids) ==
  LET es == SliceEdges(h, net, root_ids, 1) IN
  IF es.exc # "" THEN es ELSE SliceNodes(es.heap, net, root_ids, 1)

SliceTarget_shallow(h, net) == [heap |-> h, net |-> net]

(* The container _slice works on when mutate is false.                     *)
SliceTarget(h, net) == deepcopy(h, net)

PubNet__slice(h, net, root_ids, mutate) ==
  LET on == IF mutate THEN [heap |-> h, net |-> net] ELSE SliceTarget(h, net)
      done == SliceInPlace(on.heap, on.net, root_ids)
  IN [exc |-> done.exc, heap |-> done.heap, ret |-> on.net]

(* container[args] with args an array of identifiers.                      *)
PubNet___getitem__(h, net, args) ==
  IF args = {} THEN [exc |-> "IndexError", heap |-> h, ret |-> net]
  ELSE PubNet__slice(h, net, args, FALSE)

PubNet_isequal(h, net, other) ==
  IF SeqSet(net.nodes) # SeqSet(other.nodes) THEN [exc |-> "", val |-> FALSE]
  ELSE IF SeqSet(net.edges) # SeqSet(other.edges)
    THEN [exc |-> "", val |-> FALSE]
  ELSE IF \E n \in SeqSet(net.nodes) :
            n \notin DOMAIN net.node_data \/ n \notin DOMAIN other.node_data
    THEN [exc |-> "KeyError", val |-> FALSE]
  ELSE IF \E e \in SeqSet(net.edges) :
            e \notin DOMAIN net.edge_data \/ e \notin DOMAIN other.edge_data
    THEN [exc |-> "KeyError", val |-> FALSE]
  ELSE LET ns == [n \in SeqSet(net.nodes) |->
                    Node_isequal(h[net.node_data[n]], h[other.node_data[n]])]
           es == [e \in SeqSet(net.edges) |->
                    NumpyEdge_isequal(h[net.edge_data[e]], h[other.edge_data[e]])]
           firstBad(seq, r) ==
             IF \E i \in 1..Len(seq) : r[seq[i]].exc # "" \/ ~r[seq[i]].val
               THEN LET i == Min({j \in 1..Len(seq) :
                                   r[seq[j]].exc # "" \/ ~r[seq[j]].val})
                    IN r[seq[i]]
               ELSE [exc |-> "", val |-> TRUE]
       IN IF firstBad(net.nodes, ns) # [exc |-> "", val |-> TRUE]
            THEN firstBad(net.nodes, ns)
            ELSE firstBad(net.edges, es)

(* The predicate ids_where applies to the node collection: the feature     *)
(* equals a scalar, is a member of a list-like value, or (for the further  *)
(* steps of ids_containing) the identifier is a member of node_ids.        *)
FuncEq(feature, value) == [kind |-> "eq", feature |-> feature, value |-> value]
FuncIn(feature, values) == [kind |-> "in", feature |-> feature, value |-> values]
FuncIndex(node_ids) == [kind |-> "index", feature |-> "", value |-> node_ids]

ApplyFunc(func, nodes) ==
  IF func.kind = "index"
    THEN [exc |-> "", val |-> np_isin(Node_index(nodes), func.value)]
  ELSE LET vec == Node_feature_vector(nodes, func.feature) IN
    IF vec.exc # "" THEN vec
    ELSE IF func.kind = "in"
      THEN [exc |-> "", val |-> np_isin(vec.val, func.value)]
      ELSE [exc |-> "", val |-> [i \in 1..Len(vec.val) |-> vec.val[i] = func.value]]

Fail(e) == [exc |-> e, val |-> <<>>]

PubNet_get_edge(h, net, name, node_2) ==
  LET key == edge_key(name, node_2) IN
  IF key \in DOMAIN net.edge_data
    THEN [exc |-> "", val |-> h[net.edge_data[key]]]
    ELSE [exc |-> "KeyError", val |-> FreeObj]

PubNet_ids_where_node_column(h, net, node_type, func) ==
  IF node_type \notin DOMAIN net.node_data THEN Fail("KeyError")
  ELSE LET nodes == h[net.node_data[node_type]]
           node_idx == ApplyFunc(func, nodes)
       IN IF node_idx.exc # "" THEN Fail(node_idx.exc)
          ELSE LET node_ids == SeqSet(MaskRows(Node_index(nodes), node_idx.val, 1))
                   edge == PubNet_get_edge(h, net, net.root, node_type)
               IN IF edge.exc # "" THEN Fail(edge.exc)
                  ELSE LET root_idx == NumpyEdge_isin(edge.val, node_type, node_ids)
                           node_col == NumpyEdge_column(edge.val, node_type)
                       IN IF root_idx.exc # "" THEN Fail(root_idx.exc)
                          ELSE [exc |-> "",
                                val |-> MaskRows(node_col.val, root_idx.val, 1)]

PubNet_ids_where(h, net, node_type, func) ==
  IF node_type \notin DOMAIN net.node_data THEN Fail("KeyError")
  ELSE LET nodes == h[net.node_data[node_type]]
           node_idx == ApplyFunc(func, nodes)
       IN IF node_idx.exc # "" THEN Fail(node_idx.exc)
          ELSE LET node_ids == SeqSet(MaskRows(Node_index(nodes), node_idx.val, 1))
                   edge == PubNet_get_edge(h, net, net.root, node_type)
               IN IF edge.exc # "" THEN Fail(edge.exc)
                  ELSE LET root_idx == NumpyEdge_isin(edge.val, node_type, node_ids)
                           root_col == NumpyEdge_column(edge.val, net.root)
                       IN IF root_idx.exc # "" THEN Fail(root_idx.exc)
                          ELSE IF root_col.exc # "" THEN Fail(root_col.exc)
                          ELSE [exc |-> "",
                                val |-> MaskRows(root_col.val, root_idx.val, 1)]

(* A value passed as steps: its Python type and its number.                *)
Steps(type, val) == [type |-> type, val |-> val]

StepsValid_nonnegative(steps) == steps.type = "int" /\ steps.val >= 0

StepsValid(steps) == steps.type = "int" /\ steps.val >= 1

RECURSIVE FurtherSteps_wrong_column(_, _, _, _, _)
FurtherSteps_wrong_column(h, net, node_type, root_ids, steps) ==
  IF ~(steps > 1) THEN [exc |-> "", val |-> root_ids]
  ELSE LET edge == PubNet_get_edge(h, net, net.root, node_type).val
           col == NumpyEdge_column(edge, node_type)
           idx == NumpyEdge_isin(edge, node_type, SeqSet(root_ids))
       IN IF col.exc # "" THEN Fail(col.exc)
          ELSE IF idx.exc # "" THEN Fail(idx.exc)
          ELSE LET node_ids == SeqSet(MaskRows(col.val, idx.val, 1))
                   next == PubNet_ids_where(h, net, node_type, FuncIndex(node_ids))
               IN IF next.exc # "" THEN next
                  ELSE FurtherSteps_wrong_column(h, net, node_type, next.val,
                                                 steps - 1)

(* The while loop of ids_containing.                                       *)
RECURSIVE FurtherSteps(_, _, _, _, _)
FurtherSteps(h, net, node_type, root_ids, steps) ==
  IF ~(steps > 1) THEN [exc |-> "", val |-> root_ids]
  ELSE LET edge == PubNet_get_edge(h, net, net.root, node_type).val
           col == NumpyEdge_column(edge, node_type)
           idx == NumpyEdge_isin(edge, net.root, SeqSet(root_ids))
       IN IF col.exc # "" THEN Fail(col.exc)
          ELSE IF idx.exc # "" THEN Fail(idx.exc)
          ELSE LET node_ids == SeqSet(MaskRows(col.val, idx.val, 1))
                   next == PubNet_ids_where(h, net, node_type, FuncIndex(node_ids))
               IN IF next.exc # "" THEN next
                  ELSE FurtherSteps(h, net, node_type, next.val, steps - 1)

PubNet_ids_containing(h, net, node_type, node_feature, value, steps) ==
  IF ~StepsValid(steps) THEN Fail("AssertionError")
  ELSE LET func == IF value.list THEN FuncIn(node_feature, value.vals)
                   ELSE FuncEq(node_feature, value.val)
           root_ids == PubNet_ids_where(h, net, node_type, func)
       IN IF root_ids.exc # "" THEN root_ids
          ELSE FurtherSteps(h, net, node_type, root_ids.val, steps.val)

PubNet_containing(h, net, node_type, node_feature, value, steps) ==
  LET root_ids == PubNet_ids_containing(h, net, node_type, node_feature,
                                        value, steps)
  IN IF root_ids.exc # "" THEN [exc |-> root_ids.exc, heap |-> h, ret |-> net]
     ELSE PubNet___getitem__(h, net, SeqSet(root_ids.val))

dict_update_keep_existing(d, other) ==
  [k \in DOMAIN d \cup DOMAIN other |-> IF k \in DOMAIN d THEN d[k] ELSE other[k]]

dict_update(d, other) ==
  [k \in DOMAIN d \cup DOMAIN other |-> IF k \in DOMAIN other THEN other[k] ELSE d[k]]

(* The orders in which list(set(...)) may enumerate a set of keys.         *)
Orders(S) ==
  {p \in [1..Cardinality(S) -> S] :
     \A i, j \in 1..Cardinality(S) : p[i] = p[j] => i = j}

(* self.update(other); the orders are the ones list(set(...)) produced.    *)
PubNet_update(net, other, node_order, edge_order) ==
  [net EXCEPT !.node_data = dict_update(net.node_data, other.node_data),
              !.edge_data = dict_update(net.edge_data, other.edge_data),
              !.nodes = node_order,
              !.edges = net.edges \o edge_order]

(* container[key] with key a string.                                       *)
PubNet___getitem__str(h, net, key) ==
  IF key \in SeqSet(net.nodes)
    THEN IF key \in DOMAIN net.node_data
           THEN [exc |-> "", val |-> h[net.node_data[key]]]
           ELSE [exc |-> "KeyError", val |-> FreeObj]
  ELSE IF key \in SeqSet(net.edges)
    THEN IF key \in DOMAIN net.edge_data
           THEN [exc |-> "", val |-> h[net.edge_data[key]]]
           ELSE [exc |-> "KeyError", val |-> FreeObj]
  ELSE [exc |-> "KeyError", val |-> FreeObj]

(***************************************************************************)
(* State: the heap of Node and Edge objects, the containers the caller     *)
(* holds (by variable name) and a record of the last two calls.            *)
(***************************************************************************)
Pairs(A, B) == {<<x, y>> : x \in A, y \in B}

SeqsUpTo(S, n) == UNION {[1..k -> S] : k \in 0..n}

LastName(i) == IF i % 2 = 1 THEN "Smith" ELSE "Kim"

Placeholder == NodeObj(<<>>, <<>>)

IdTable(feature, ids) ==
  NodeObj(<<feature>>, [i \in 1..Len(ids) |-> [id |-> ids[i], val |-> LastName(ids[i])]])

NoEdge == [absent |-> TRUE]

SecondEdges ==
  {NoEdge}
  \cup {[key |-> "Chemical-Publication",
         obj |-> EdgeObj("Publication", "Chemical", rows, 2)] :
           rows \in SeqsUpTo(Pairs(PubIds, {1}), 1)}
  \cup {[key |-> "Author-Chemical",
         obj |-> EdgeObj("Author", "Chemical", <<<<1, 1>>>>, 2)]}

MkHeap(objs) == [r \in Refs |-> IF r <= Len(objs) THEN objs[r] ELSE FreeObj]

NoCall == [op |-> "init"]

Called(op, src, dst, ids, mutate, exc, pre, self) ==
  [op |-> op, src |-> src, dst |-> dst, ids |-> ids, mutate |-> mutate,
   exc |-> exc, pre |-> pre, self |-> self,
   prev |-> IF last.op = "init" THEN last ELSE [last EXCEPT !.prev = NoCall]]

EmptyNets == [s \in Slots |-> NoNet]

(* The record holds the last two calls; behaviours are followed for two    *)
(* calls.                                                                  *)
NoCallYet == last.op = "init"

AtMostOneCall == IF last.op = "init" THEN TRUE ELSE last.prev.op = "init"

(* The rows of an edge file: distinct rows, ascending or descending.       *)
RowLess(r, q) == r[1] < q[1] \/ (r[1] = q[1] /\ r[2] < q[2])

RECURSIVE SortRows(_)
SortRows(S) ==
  IF S = {} THEN <<>>
  ELSE LET m == CHOOSE r \in S : \A q \in S \ {r} : RowLess(r, q)
       IN <<m>> \o SortRows(S \ {m})

Reversed(seq) == [i \in 1..Len(seq) |-> seq[Len(seq) + 1 - i]]

RowLists(S, n) ==
  LET sorted == {SortRows(T) : T \in {U \in SUBSET S : Cardinality(U) <= n}}
  IN sorted \cup {Reversed(rows) : rows \in sorted}

(* A container as load_graph builds it: Author and Publication nodes, the  *)
(* Author-Publication edge, and possibly a second edge whose other node    *)
(* type gets a placeholder node.                                           *)
Shapes ==
  {[pub |-> IdTable("Title", SetToSeq(PubIds)),
    auth |-> IdTable("LastName", SetToSeq(OtherIds)),
    second |-> second] : second \in SecondEdges}
  \cup {[pub |-> Placeholder, auth |-> Placeholder, second |-> NoEdge],
        [pub |-> IdTable("Title", SetToSeq(PubIds)),
         auth |-> IdTable("LastName", <<1>>), second |-> NoEdge]}

(* The authors the Author-Publication rows name: every author unless the  *)
(* container has a second edge or placeholder nodes.                       *)
RowAuthors(shape) ==
  IF shape.second = NoEdge /\ shape.pub # Placeholder THEN OtherIds ELSE {1}

InitSlice ==
  \E shape \in Shapes :
  \E ap \in RowLists(Pairs(PubIds, RowAuthors(shape)), MaxRows) :
    LET apObj == EdgeObj("Publication", "Author", ap, 2)
        pub == shape.pub
        auth == shape.auth
        second == shape.second
    IN
    /\ heap = IF second = NoEdge
                THEN MkHeap(<<auth, pub, apObj>>)
                ELSE MkHeap(<<auth, pub, apObj, Placeholder, second.obj>>)
    /\ nets = [EmptyNets EXCEPT !["a"] =
         IF second = NoEdge
           THEN PubNetObj("Publication", <<"Author", "Publication">>,
                  <<"Author-Publication">>,
                  [n \in {"Author", "Publication"} |->
                     IF n = "Author" THEN 1 ELSE 2],
                  [e \in {"Author-Publication"} |-> 3])
           ELSE PubNetObj("Publication", <<"Author", "Publication", "Chemical">>,
                  <<"Author-Publication", second.key>>,
                  [n \in {"Author", "Publication", "Chemical"} |->
                     IF n = "Author" THEN 1 ELSE IF n = "Publication" THEN 2 ELSE 4],
                  [e \in {"Author-Publication", second.key} |->
                     IF e = "Author-Publication" THEN 3 ELSE 5])]
    /\ last = NoCall

(* dst = src[ids]                                                          *)
GetItem(src, dst, ids) ==
  /\ AtMostOneCall
  /\ nets[src] # NoNet
  /\ nets[dst] = NoNet
  /\ LET res == PubNet___getitem__(heap, nets[src], ids)
         nets2 == IF res.exc = "" THEN [nets EXCEPT ![dst] = res.ret] ELSE nets
     IN /\ nets' = nets2
        /\ heap' = Collect(res.heap, nets2)
        /\ last' = Called("getitem", src, dst, ids, FALSE, res.exc,
                          View(heap, nets[src]), res.ret = nets[src])

(* dst = src._slice(ids, mutate); with mutate the result is src itself.    *)
Slice(src, dst, ids, mutate) ==
  /\ NoCallYet
  /\ nets[src] # NoNet
  /\ mutate => dst = src
  /\ LET res == PubNet__slice(heap, nets[src], ids, mutate)
         nets2 == IF res.exc = "" THEN [nets EXCEPT ![dst] = res.ret] ELSE nets
     IN /\ nets' = nets2
        /\ heap' = Collect(res.heap, nets2)
        /\ last' = Called("slice", src, dst, ids, mutate, res.exc,
                          View(heap, nets[src]), res.ret = nets[src])

IdSets == SUBSET PubIds

NextSlice ==
  \/ \E ids \in IdSets : GetItem("a", "sub", ids)
  \/ \E ids \in IdSets : GetItem("sub", "subsub", ids)
  \/ \E ids \in IdSets : Slice("a", "sub", ids, FALSE)
  \/ \E ids \in IdSets : Slice("a", "a", ids, TRUE)

SpecSlice == InitSlice /\ [][NextSlice]_vars

(***************************************************************************)
(* Properties of slicing.                                                  *)
(***************************************************************************)
Sliced == last.op \in {"slice", "getitem"}

SlicedOk == Sliced /\ last.exc = ""

Before == last.pre

After == View(heap, nets[last.dst])

RootColumn(e) == IF Before.root = e.start_id THEN 1 ELSE 2

ColumnOf(e, type) == IF type = e.start_id THEN 1 ELSE 2

ColumnValues(e, c) == {e.data[i][c] : i \in 1..Len(e.data)}

RECURSIVE RowsWithin(_, _, _)
RowsWithin(rows, c, ids) ==
  IF rows = <<>> THEN <<>>
  ELSE (IF Head(rows)[c] \in ids THEN <<Head(rows)>> ELSE <<>>)
         \o RowsWithin(Tail(rows), c, ids)

RECURSIVE NodeRowsWithin(_, _)
NodeRowsWithin(rows, ids) ==
  IF rows = <<>> THEN <<>>
  ELSE (IF Head(rows).id \in ids THEN <<Head(rows)>> ELSE <<>>)
         \o NodeRowsWithin(Tail(rows), ids)

(* C1: after a slice that returns, every edge collection of the result     *)
(* holds exactly the rows of the original edge collection whose root       *)
(* column is in root_ids, in the original order, so its root column is a   *)
(* subset of root_ids.                                                     *)
C1_EdgesFiltered ==
  SlicedOk =>
    /\ DOMAIN After.edge_data = DOMAIN Before.edge_data
    /\ \A k \in DOMAIN After.edge_data :
         LET old == Before.edge_data[k]
             new == After.edge_data[k]
         IN /\ Before.root \in {old.start_id, old.end_id}
            /\ new.data = RowsWithin(old.data, RootColumn(old), last.ids)
            /\ ColumnValues(new, RootColumn(old)) \subseteq last.ids

C1_Witness ==
  /\ SlicedOk
  /\ \E k \in DOMAIN After.edge_data :
       /\ Len(After.edge_data[k].data) > 0
       /\ Len(After.edge_data[k].data) < Len(Before.edge_data[k].data)

(* C2: after a slice, every non-root node type that was non-empty and has  *)
(* an edge collection to the root keeps only identifiers that occur in     *)
(* that node type's column of the surviving edge rows (none when no row    *)
(* survives); a node type without an edge to the root is unchanged.        *)
C2_NodesFollowEdges ==
  SlicedOk =>
    \A key \in DOMAIN After.node_data :
      (key # Before.root /\ Len(Before.node_data[key].rows) > 0) =>
        LET ek == edge_key(key, Before.root) IN
        IF ek \in DOMAIN After.edge_data
          THEN {r.id : r \in SeqSet(After.node_data[key].rows)} \subseteq
                 ColumnValues(After.edge_data[ek],
                              ColumnOf(After.edge_data[ek], key))
          ELSE After.node_data[key] = Before.node_data[key]

(* C3: after a slice on a container whose root node collection is present  *)
(* and non-empty, the root node collection holds exactly the original root *)
(* rows whose id is in root_ids, whatever edges survive.                   *)
C3_RootFromIds ==
  (SlicedOk /\ Before.root \in DOMAIN Before.node_data) =>
    (Len(Before.node_data[Before.root].rows) > 0 =>
       After.node_data[Before.root].rows =
         NodeRowsWithin(Before.node_data[Before.root].rows, last.ids))

SurvivingRootIds ==
  UNION {ColumnValues(After.edge_data[k], RootColumn(After.edge_data[k])) :
           k \in DOMAIN After.edge_data}

C3_Witness ==
  /\ SlicedOk
  /\ Before.root \in DOMAIN Before.node_data
  /\ Len(After.node_data[Before.root].rows) > 0
  /\ Len(After.node_data[Before.root].rows)
       < Len(Before.node_data[Before.root].rows)
  /\ \E r \in SeqSet(After.node_data[Before.root].rows) :
       r.id \notin SurvivingRootIds

(* C4: a slice with mutate false (also through container[ids]) returns a   *)
(* new container and leaves the original's collections, key lists and root *)
(* as they were, also when it raises part-way; with mutate true it works   *)
(* on self and returns self.                                               *)
C4_CopyIsolates ==
  Sliced =>
    /\ ~last.mutate => View(heap, nets[last.src]) = Before
    /\ (~last.mutate /\ last.exc = "") =>
         /\ ~last.self
         /\ NetRefs(nets[last.dst]) \cap NetRefs(nets[last.src]) = {}
    /\ last.mutate => last.self /\ last.dst = last.src

C4_Witness ==
  /\ Sliced /\ ~last.mutate /\ last.exc = "KeyError"
  /\ \E k \in DOMAIN Before.edge_data :
       LET old == Before.edge_data[k] IN
       /\ Before.root \in {old.start_id, old.end_id}
       /\ RowsWithin(old.data, RootColumn(old), last.ids) # old.data

C4_WitnessMutate ==
  /\ SlicedOk /\ last.mutate
  /\ View(heap, nets[last.src]) # Before

TwoSlices ==
  /\ last.op = "getitem" /\ last.src = "sub" /\ last.dst = "subsub"
  /\ last.prev.op = "getitem" /\ last.prev.exc = ""
  /\ last.prev.src = "a" /\ last.prev.dst = "sub"

True == [exc |-> "", val |-> TRUE]

(* C5: slicing is idempotent: container[ids][ids] isequal container[ids],  *)
(* and slicing a sliced container again by the same ids or by a superset   *)
(* changes no node or edge collection.                                     *)
C5_SliceIdempotent ==
  (TwoSlices /\ last.prev.ids \subseteq last.ids) =>
    /\ last.exc = ""
    /\ PubNet_isequal(heap, nets["subsub"], nets["sub"]) = True
    /\ View(heap, nets["subsub"]) = View(heap, nets["sub"])

Direct == PubNet___getitem__(heap, nets["a"], last.ids)

(* C6: for id sets B subset of A, slicing by A and then by B gives a       *)
(* container that isequal the one obtained by slicing the original by B.   *)
C6_NestedEqualsDirect ==
  (TwoSlices /\ last.ids \subseteq last.prev.ids /\ Direct.exc = "") =>
    /\ last.exc = ""
    /\ PubNet_isequal(Direct.heap, nets["subsub"], Direct.ret) = True

(***************************************************************************)
(* ids_containing and containing.                                          *)
(***************************************************************************)
ScalarValue(v) == [list |-> FALSE, val |-> v, vals |-> {v}]
ListValue(S) == [list |-> TRUE, val |-> "", vals |-> S]

Names == {"Smith", "Kim"}

(* Author tables: every identifier is absent or carries one of the names.  *)
AuthorTablesOver(ids) ==
  {NodeObj(<<"LastName">>,
           [i \in 1..Len(SetToSeq(present)) |->
              [id |-> SetToSeq(present)[i], val |-> name[SetToSeq(present)[i]]]]) :
     present \in SUBSET ids, name \in [ids -> Names]}

ChainRows == <<<<1, 1>>, <<1, 2>>, <<2, 2>>, <<2, 3>>, <<3, 3>>>>

ChainAuthors ==
  NodeObj(<<"LastName">>, <<[id |-> 1, val |-> "Smith"], [id |-> 2, val |-> "Kim"],
                           [id |-> 3, val |-> "Kim"]>>)

Flip(rows) == [i \in 1..Len(rows) |-> <<rows[i][2], rows[i][1]>>]

ContainingInputs ==
  {[auth |-> auth, edge |-> EdgeObj("Publication", "Author", rows, 2)] :
     auth \in AuthorTablesOver(OtherIds),
     rows \in RowLists(Pairs(PubIds, OtherIds), MaxRows)}
  \cup {[auth |-> ChainAuthors, edge |-> EdgeObj("Publication", "Author", ChainRows, 2)],
        [auth |-> ChainAuthors,
         edge |-> EdgeObj("Author", "Publication", Flip(ChainRows), 2)]}

InitContaining ==
  \E input \in ContainingInputs :
    /\ heap = MkHeap(<<input.auth, IdTable("Title", <<1, 2, 3>>), input.edge>>)
    /\ nets = [EmptyNets EXCEPT !["a"] =
         PubNetObj("Publication", <<"Author", "Publication">>,
           <<"Author-Publication">>,
           [n \in {"Author", "Publication"} |-> IF n = "Author" THEN 1 ELSE 2],
           [e \in {"Author-Publication"} |-> 3])]
    /\ last = NoCall

Asked(op, src, dst, node_type, feature, value, steps, exc, result, pre) ==
  [op |-> op, src |-> src, dst |-> dst, node_type |-> node_type,
   feature |-> feature, value |-> value, steps |-> steps, exc |-> exc,
   result |-> result, pre |-> pre]

(* root_ids = src.ids_containing(node_type, feature, value, steps)         *)
IdsContaining(src, node_type, feature, value, steps) ==
  /\ NoCallYet
  /\ nets[src] # NoNet
  /\ LET res == PubNet_ids_containing(heap, nets[src], node_type, feature,
                                      value, steps)
     IN last' = Asked("ids_containing", src, src, node_type, feature, value,
                      steps, res.exc, res.val, View(heap, nets[src]))
  /\ UNCHANGED <<heap, nets>>

(* dst = src.containing(node_type, feature, value, steps)                  *)
Containing(src, dst, node_type, feature, value, steps) ==
  /\ NoCallYet
  /\ nets[src] # NoNet
  /\ LET res == PubNet_containing(heap, nets[src], node_type, feature,
                                  value, steps)
         nets2 == IF res.exc = "" THEN [nets EXCEPT ![dst] = res.ret] ELSE nets
     IN /\ nets' = nets2
        /\ heap' = Collect(res.heap, nets2)
        /\ last' = Asked("containing", src, dst, node_type, feature, value,
                         steps, res.exc, <<>>, View(heap, nets[src]))

StepsInputs ==
  {Steps("int", k) : k \in -1..MaxSteps} \cup {Steps("float", 2)}

ValueInputs == {ScalarValue("Smith"), ListValue({"Smith", "Kim"})}

NextContaining ==
  \/ \E t \in {"Author", "Chemical"}, v \in ValueInputs, k \in StepsInputs :
       IdsContaining("a", t, "LastName", v, k)
  \/ \E k \in {Steps("int", 0), Steps("int", 1)} :
       IdsContaining("a", "Author", "ForeName", ScalarValue("Smith"), k)
  \/ \E t \in {"Author", "Chemical"}, k \in StepsInputs :
       Containing("a", "sub", t, "LastName", ScalarValue("Smith"), k)

SpecContaining == InitContaining /\ [][NextContaining]_vars

Asking == last.op \in {"ids_containing", "containing"}

AskedNet == nets[last.src]

AskedEdge == heap[AskedNet.edge_data[edge_key(AskedNet.root, last.node_type)]]

TableIds == {r.id : r \in SeqSet(heap[AskedNet.node_data[last.node_type]].rows)}

Matching ==
  {r.id : r \in {x \in SeqSet(heap[AskedNet.node_data[last.node_type]].rows) :
                   x.val \in last.value.vals}}

(* Root ids with an edge row to one of the given nodes.                    *)
RootsOf(nodes) ==
  {row[ColumnOf(AskedEdge, AskedNet.root)] :
     row \in {x \in SeqSet(AskedEdge.data) :
                x[ColumnOf(AskedEdge, last.node_type)] \in nodes}}

(* Nodes of the collection with an edge row to one of the given root ids.  *)
NodesOf(roots) ==
  {n \in TableIds :
     \E row \in SeqSet(AskedEdge.data) :
       /\ row[ColumnOf(AskedEdge, last.node_type)] = n
       /\ row[ColumnOf(AskedEdge, AskedNet.root)] \in roots}

RECURSIVE R(_)
R(k) == IF k = 1 THEN RootsOf(Matching) ELSE RootsOf(NodesOf(R(k - 1)))

(* C7: ids_containing with steps k returns, as a set, R(k): R(1) is the    *)
(* root ids with an edge row to a node whose feature matches value, and    *)
(* R(i+1) the root ids with an edge row to a node of the collection that   *)
(* has an edge row to a member of R(i).                                    *)
C7_ContainingIsRk ==
  (last.op = "ids_containing" /\ last.exc = "") =>
    SeqSet(last.result) = R(last.steps.val)

C7_Witness ==
  /\ last.op = "ids_containing" /\ last.exc = ""
  /\ last.steps.val = 3
  /\ R(1) # R(2) /\ R(2) # R(3)
  /\ SeqSet(last.result) = {1, 2, 3}

NextStep ==
  PubNet_ids_containing(heap, AskedNet, last.node_type, last.feature,
                        last.value, Steps("int", last.steps.val + 1))

(* C8: the root ids returned for steps k+1 include those returned for      *)
(* steps k.                                                                *)
C8_StepsMonotone ==
  (last.op = "ids_containing" /\ last.exc = "") =>
    /\ NextStep.exc = ""
    /\ SeqSet(last.result) \subseteq SeqSet(NextStep.val)

C8_Witness ==
  /\ last.op = "ids_containing" /\ last.exc = ""
  /\ last.steps.val = 2
  /\ SeqSet(last.result) # SeqSet(NextStep.val)

(* C9: ids_containing and containing raise, before reading or changing any *)
(* collection, when steps is not an integer or is below 1, and do not      *)
(* raise on that ground for an integer steps of at least 1.                *)
C9_StepsChecked ==
  Asking =>
    IF last.steps.type = "int" /\ last.steps.val >= 1
      THEN last.exc # "AssertionError"
      ELSE /\ last.exc = "AssertionError"
           /\ View(heap, nets[last.src]) = last.pre
           /\ last.op = "containing" => nets["sub"] = NoNet

C9_Witness ==
  /\ Asking
  /\ last.steps = Steps("int", 0)
  /\ last.node_type \notin DOMAIN AskedNet.node_data
  /\ last.exc = "AssertionError"

(***************************************************************************)
(* update.                                                                 *)
(***************************************************************************)
EdgeKeys == {"Author-Publication", "Chemical-Publication"}

StartOf(key) == "Publication"

EndOf(key) == IF key = "Author-Publication" THEN "Author" ELSE "Chemical"

(* Two containers after construction and drops: a holds identifier 1 in    *)
(* every collection, b holds identifier 2.                                 *)
NodeOf(who, type) ==
  IF who = "a" THEN IdTable("Name", <<1>>) ELSE IdTable("Name", <<2>>)

EdgeOf(who, key) ==
  EdgeObj(StartOf(key), EndOf(key),
          IF who = "a" THEN <<<<1, 1>>>> ELSE <<<<2, 2>>>>, 2)

Place(keys, first, isNode) ==
  [k \in SeqSet(keys) |-> first + IndexOf(keys, k) - 1]

Built(who, nodeKeys, edgeKeys, first) ==
  PubNetObj("Publication", nodeKeys, edgeKeys,
            Place(nodeKeys, first, TRUE),
            Place(edgeKeys, first + Len(nodeKeys), FALSE))

Objects(who, nodeKeys, edgeKeys) ==
  [i \in 1..Len(nodeKeys) |-> NodeOf(who, nodeKeys[i])]
    \o [i \in 1..Len(edgeKeys) |-> EdgeOf(who, edgeKeys[i])]

InitUpdate ==
  \E na \in SUBSET NodeTypes, nb \in SUBSET NodeTypes,
     ea \in SUBSET EdgeKeys, eb \in SUBSET EdgeKeys :
    LET nas == SetToSeq({Rank(n) : n \in na})
        nbs == SetToSeq({Rank(n) : n \in nb})
        an == [i \in 1..Len(nas) |-> NodeOrder[nas[i]]]
        bn == [i \in 1..Len(nbs) |-> NodeOrder[nbs[i]]]
        ae == [i \in 1..Cardinality(ea) |->
                 IF i = 1 /\ "Author-Publication" \in ea
                   THEN "Author-Publication" ELSE "Chemical-Publication"]
        be == [i \in 1..Cardinality(eb) |->
                 IF i = 1 /\ "Author-Publication" \in eb
                   THEN "Author-Publication" ELSE "Chemical-Publication"]
        aObjs == Objects("a", an, ae)
    IN /\ heap = MkHeap(aObjs \o Objects("b", bn, be))
       /\ nets = [EmptyNets EXCEPT
                    !["a"] = Built("a", an, ae, 1),
                    !["b"] = Built("b", bn, be, Len(aObjs) + 1)]
       /\ last = NoCall

(* self.update(other)                                                      *)
Update(self, other) ==
  /\ NoCallYet
  /\ nets[self] # NoNet /\ nets[other] # NoNet
  /\ \E node_order \in Orders(SeqSet(nets[self].nodes \o nets[other].nodes)),
        edge_order \in Orders(SeqSet(nets[self].edges \o nets[other].edges)) :
       LET nets2 == [nets EXCEPT ![self] =
                       PubNet_update(nets[self], nets[other], node_order, edge_order)]
       IN /\ nets' = nets2
          /\ heap' = Collect(heap, nets2)
          /\ last' = [op |-> "update", src |-> self, other |-> other, exc |-> "",
                      pre |-> View(heap, nets[self]),
                      preOther |-> View(heap, nets[other])]

NextUpdate == Update("a", "b") \/ Update("b", "a")

SpecUpdate == InitUpdate /\ [][NextUpdate]_vars

Updated == last.op = "update"

Is(found, obj, isequal(_, _)) == found.exc = "" /\ isequal(found.val, obj) = True

Keeps(found, obj) == found.exc = "" /\ found.val = obj

(* C10: after a.update(b) every node name and edge key defined in b gives, *)
(* looked up in a, a collection that isequal b's, and every key defined    *)
(* only in a keeps a's original collection.                                *)
C10_OtherWins ==
  Updated =>
    LET self == nets[last.src] IN
    /\ \A k \in DOMAIN last.preOther.node_data :
         Is(PubNet___getitem__str(heap, self, k), last.preOther.node_data[k],
            Node_isequal)
    /\ \A k \in DOMAIN last.preOther.edge_data :
         Is(PubNet___getitem__str(heap, self, k), last.preOther.edge_data[k],
            NumpyEdge_isequal)
    /\ \A k \in DOMAIN last.pre.node_data \ DOMAIN last.preOther.node_data :
         Keeps(PubNet___getitem__str(heap, self, k), last.pre.node_data[k])
    /\ \A k \in DOMAIN last.pre.edge_data \ DOMAIN last.preOther.edge_data :
         Keeps(PubNet___getitem__str(heap, self, k), last.pre.edge_data[k])

C10_Witness ==
  /\ Updated
  /\ \E k \in DOMAIN last.pre.edge_data \cap DOMAIN last.preOther.edge_data :
       last.pre.edge_data[k] # last.preOther.edge_data[k]
  /\ \E k \in DOMAIN last.pre.node_data \cap DOMAIN last.preOther.node_data :
       last.pre.node_data[k] # last.preOther.node_data[k]
  /\ DOMAIN last.pre.node_data \ DOMAIN last.preOther.node_data # {}
  /\ DOMAIN last.pre.edge_data \ DOMAIN last.preOther.edge_data # {}

Count(seq, x) == Cardinality({i \in 1..Len(seq) : seq[i] = x})

(* C11: after a.update(b) the node key list and the edge key list of a are *)
(* the set union of the key lists of a (before the call) and b, and every  *)
(* key is listed exactly once.                                             *)
C11_KeyListsUnion ==
  Updated =>
    LET self == nets[last.src] IN
    /\ SeqSet(self.nodes) = SeqSet(last.pre.nodes) \cup SeqSet(last.preOther.nodes)
    /\ SeqSet(self.edges) = SeqSet(last.pre.edges) \cup SeqSet(last.preOther.edges)
    /\ \A k \in SeqSet(self.nodes) : Count(self.nodes, k) = 1
    /\ \A k \in SeqSet(self.edges) : Count(self.edges, k) = 1

(***************************************************************************)
(* Building and changing a container: __init__, add_node, add_edge, drop.  *)
(***************************************************************************)
MaxNames == 2

EdgeParts == [k \in EdgeKeys |-> <<StartOf(k), EndOf(k)>>]

(* edge_parts(key) for the keys a container holds.                         *)
edge_parts(key) ==
  LET p == EdgeParts[key]
  IN IF Rank(p[1]) <= Rank(p[2]) THEN p ELSE <<p[2], p[1]>>

Held(h, net) == [exc |-> "", heap |-> h, net |-> net]

Failed(e, h, net) == [exc |-> e, heap |-> h, net |-> net]

(* self.add_node(data, name) with data a Node or None.                     *)
PubNet_add_node(h, net, data, name) ==
  IF name \in SeqSet(net.nodes) THEN Failed("ValueError", h, net)
  ELSE LET r == Min(FreeRefs(h))
       IN Held([h EXCEPT ![r] = data],
               [net EXCEPT !.nodes = Append(@, name),
                           !.node_data = (name :> r) @@ @])

PubNet_add_edge_again(h, net, data, name) ==
  LET r == Min(FreeRefs(h))
  IN Held([h EXCEPT ![r] = data],
          [net EXCEPT !.edges = Append(@, name),
                      !.edge_data = (name :> r) @@ @])

(* self.add_edge(data, name) with data an Edge and name its key.           *)
PubNet_add_edge(h, net, data, name) ==
  IF name \in SeqSet(net.edges) THEN Failed("ValueError", h, net)
  ELSE LET r == Min(FreeRefs(h))
       IN Held([h EXCEPT ![r] = data],
               [net EXCEPT !.edges = Append(@, name),
                           !.edge_data = (name :> r) @@ @])

Named(data, name) == [data |-> data, name |-> name]

RECURSIVE AddAll(_, _, _)
AddAll(held, items, isNode) ==
  IF items = <<>> \/ held.exc # "" THEN held
  ELSE AddAll(IF isNode
                THEN PubNet_add_node(held.heap, held.net, Head(items).data,
                                     Head(items).name)
                ELSE PubNet_add_edge(held.heap, held.net, Head(items).data,
                                     Head(items).name),
              Tail(items), isNode)

(* PubNet(nodes, edges, root); missing is the order in which the set       *)
(* edge_nodes - set(self.nodes) is enumerated.                             *)
PubNet___init__(h, nodes, edges, root, missing) ==
  LET empty == PubNetObj(root, <<>>, <<>>, <<>>, <<>>)
      withNodes == AddAll(Held(h, empty), nodes, TRUE)
      withEdges == AddAll(withNodes, edges, FALSE)
  IN AddAll(withEdges,
            [i \in 1..Len(missing) |-> Named(Placeholder, missing[i])], TRUE)

EdgeNodes(edges) == UNION {SeqSet(edge_parts(edges[i])) : i \in 1..Len(edges)}

(* Arguments of drop: None, one name, a list of names; None, one pair of   *)
(* names, a list of pairs.                                                 *)
NoneArg == [kind |-> "None"]

StrArg(s) == [kind |-> "str", val |-> s]

PairArg(p) == [kind |-> "pair", val |-> p]

ListArg(seq) == [kind |-> "list", val |-> seq]

Filter(seq, S) ==
  LET Kept(x) == x \notin S IN SelectSeq(seq, Kept)

(* nodes = [nodes] when nodes is a string                                  *)
AsList(arg) ==
  IF arg.kind = "None" THEN <<>>
  ELSE IF arg.kind \in {"str", "pair"} THEN <<arg.val>>
  ELSE arg.val

PubNet__missing_nodes(net, nodes) ==
  LET Missing(n) == n \notin SeqSet(net.nodes)
  IN SelectSeq(AsList(nodes), Missing)

(* The key of every requested pair; None for an empty list.               *)
PubNet__as_keys(edges) ==
  IF AsList(edges) = <<>> THEN NoneArg
  ELSE ListArg([i \in 1..Len(AsList(edges)) |->
                  edge_key(AsList(edges)[i][1], AsList(edges)[i][2])])

PubNet__missing_edges(net, edges) ==
  IF edges.kind = "None" THEN [exc |-> "", val |-> <<>>]
  ELSE IF AsList(edges) = <<>> THEN [exc |-> "IndexError", val |-> <<>>]
  ELSE LET Missing(k) == k \notin SeqSet(net.edges)
       IN [exc |-> "", val |-> SelectSeq(PubNet__as_keys(edges).val, Missing)]

(* for key in keys: d.pop(key)                                             *)
RECURSIVE PopAll(_, _)
PopAll(d, keys) ==
  IF keys = <<>> THEN [exc |-> "", d |-> d]
  ELSE IF Head(keys) \notin DOMAIN d THEN [exc |-> "KeyError", d |-> d]
  ELSE PopAll([k \in DOMAIN d \ {Head(keys)} |-> d[k]], Tail(keys))

DropKeys_keep_listed(seq, S) == seq

DropKeys(seq, S) == Filter(seq, S)

(* self.drop(nodes, edges)                                                 *)
PubNet_drop(h, net, nodes, edges) ==
  IF PubNet__missing_nodes(net, nodes) # <<>>
    THEN Failed("AssertionError", h, net)
  ELSE LET missing == PubNet__missing_edges(net, edges) IN
  IF missing.exc # "" THEN Failed(missing.exc, h, net)
  ELSE IF missing.val # <<>> THEN Failed("AssertionError", h, net)
  ELSE LET popped == PopAll(net.node_data, AsList(nodes)) IN
  IF popped.exc # ""
    THEN Failed(popped.exc, h, [net EXCEPT !.node_data = popped.d])
  ELSE LET net1 == [net EXCEPT !.node_data = popped.d,
                               !.nodes = DropKeys(@, SeqSet(AsList(nodes)))]
           keys == IF edges.kind = "None" THEN <<>>
                   ELSE PubNet__as_keys(edges).val
           poppedE == PopAll(net1.edge_data, keys)
       IN IF poppedE.exc # ""
            THEN Failed(poppedE.exc, h, [net1 EXCEPT !.edge_data = poppedE.d])
          ELSE Held(h, [net1 EXCEPT !.edge_data = poppedE.d,
                                    !.edges = DropKeys(@, SeqSet(keys))])

(***************************************************************************)
(* Dropping from a container as PubNet(nodes, edges) builds it.            *)
(***************************************************************************)
InOrder(S) ==
  LET ranks == SetToSeq({Rank(n) : n \in S})
  IN [i \in 1..Len(ranks) |-> NodeOrder[ranks[i]]]

KeysInOrder(E) ==
  [i \in 1..Cardinality(E) |->
     IF i = 1 /\ "Author-Publication" \in E
       THEN "Author-Publication" ELSE "Chemical-Publication"]

ConstructedIn(h, who, N, E, missing) ==
  PubNet___init__(h,
    [i \in 1..Cardinality(N) |-> Named(NodeOf(who, InOrder(N)[i]), InOrder(N)[i])],
    [i \in 1..Cardinality(E) |->
       Named(EdgeOf(who, KeysInOrder(E)[i]), KeysInOrder(E)[i])],
    "Publication", missing)

Constructed(who, N, E, missing) == ConstructedIn(MkHeap(<<>>), who, N, E, missing)

InitDrop ==
  \E N \in SUBSET NodeTypes, E \in SUBSET EdgeKeys :
  \E missing \in Orders(EdgeNodes(KeysInOrder(E)) \ N) :
    LET built == Constructed("a", N, E, missing)
    IN /\ heap = built.heap
       /\ nets = [EmptyNets EXCEPT !["a"] = built.net]
       /\ last = NoCall

DropPairs ==
  {<<"Author", "Publication">>, <<"Publication", "Author">>,
   <<"Chemical", "Publication">>, <<"Author", "Chemical">>}

NodeRequests ==
  {NoneArg} \cup {StrArg(n) : n \in NodeTypes}
    \cup {ListArg(s) : s \in SeqsUpTo(NodeTypes, MaxNames)}

EdgeRequests ==
  {NoneArg} \cup {PairArg(p) : p \in DropPairs}
    \cup {ListArg(s) : s \in SeqsUpTo(DropPairs, MaxNames)}

(* self.drop(nodes, edges)                                                 *)
Drop(self, nodes, edges) ==
  /\ NoCallYet
  /\ nets[self] # NoNet
  /\ LET r == PubNet_drop(heap, nets[self], nodes, edges)
         nets2 == [nets EXCEPT ![self] = r.net]
     IN /\ nets' = nets2
        /\ heap' = Collect(r.heap, nets2)
        /\ last' = [op |-> "drop", src |-> self, nodes |-> nodes,
                    edges |-> edges, exc |-> r.exc,
                    pre |-> View(heap, nets[self])]

NextDrop == \E nodes \in NodeRequests, edges \in EdgeRequests : Drop("a", nodes, edges)

SpecDrop == InitDrop /\ [][NextDrop]_vars

Dropped == last.op = "drop"

DroppedNames == SeqSet(AsList(last.nodes))

DroppedKeys == {edge_key(p[1], p[2]) : p \in SeqSet(AsList(last.edges))}

Without(d, S) == [k \in DOMAIN d \ S |-> d[k]]

(* C12: a drop that returns removes every named node type from the node    *)
(* key list and the node mapping and every named edge, its pair given in   *)
(* either order, from the edge key list and the edge mapping; every other  *)
(* key and collection is as before.                                        *)
C12_DropRemovesNamed ==
  (Dropped /\ last.exc = "") =>
    LET now == View(heap, nets[last.src]) IN
    /\ now.nodes = Filter(last.pre.nodes, DroppedNames)
    /\ now.node_data = Without(last.pre.node_data, DroppedNames)
    /\ now.edges = Filter(last.pre.edges, DroppedKeys)
    /\ now.edge_data = Without(last.pre.edge_data, DroppedKeys)
    /\ now.root = last.pre.root

C12_Witness ==
  /\ Dropped /\ last.exc = ""
  /\ DroppedNames # {}
  /\ \E p \in SeqSet(AsList(last.edges)) : Rank(p[1]) > Rank(p[2])
  /\ nets[last.src].nodes # <<>>
  /\ nets[last.src].edges # <<>>
  /\ Len(nets[last.src].nodes) < Len(last.pre.nodes)
  /\ Len(nets[last.src].edges) < Len(last.pre.edges)

(* C13: a drop that raises leaves the node and edge key lists and the      *)
(* mappings exactly as they were before the call.                          *)
C13_DropAllOrNothing ==
  (Dropped /\ last.exc # "") => View(heap, nets[last.src]) = last.pre

(***************************************************************************)
(* The life of a container: built by PubNet(nodes, edges), then changed by *)
(* add_node, add_edge, drop, update and slices.  Container b is the second *)
(* container of the tests: Chemical nodes and the Chemical-Publication     *)
(* edge.                                                                   *)
(***************************************************************************)
Init ==
  \E N \in SUBSET NodeTypes, E \in SUBSET EdgeKeys :
  \E missing \in Orders(EdgeNodes(KeysInOrder(E)) \ N) :
    LET builtA == Constructed("a", N, E, missing)
        builtB == ConstructedIn(builtA.heap, "b", {"Chemical"},
                                {"Chemical-Publication"}, <<"Publication">>)
    IN /\ heap = builtB.heap
       /\ nets = [EmptyNets EXCEPT !["a"] = builtA.net, !["b"] = builtB.net]
       /\ last = NoCall

Returned(op, self, args, exc) ==
  [op |-> op, src |-> self, args |-> args, exc |-> exc,
   pre |-> View(heap, nets[self]), preOther |-> View(heap, nets["b"]),
   prev |-> [op |-> last.op]]

(* What a call leaves behind: the containers, the heap without the objects *)
(* nothing refers to any more, and the record of the call.                 *)
Leaves(nets2, h, record) ==
  /\ nets' = nets2
  /\ heap' = Collect(h, nets2)
  /\ last' = record

CallAddNode(self, data, name) ==
  /\ AtMostOneCall
  /\ LET r == PubNet_add_node(heap, nets[self], data, name)
     IN Leaves([nets EXCEPT ![self] = r.net], r.heap,
               Returned("add_node", self, <<name>>, r.exc))

CallAddEdge(self, name) ==
  /\ AtMostOneCall
  /\ LET r == PubNet_add_edge(heap, nets[self], EdgeOf("b", name), name)
     IN Leaves([nets EXCEPT ![self] = r.net], r.heap,
               Returned("add_edge", self, <<name>>, r.exc))

CallDrop(self, nodes, edges) ==
  /\ AtMostOneCall
  /\ LET r == PubNet_drop(heap, nets[self], nodes, edges)
     IN Leaves([nets EXCEPT ![self] = r.net], r.heap,
               Returned("drop", self, <<nodes, edges>>, r.exc))

CallUpdate(self, other) ==
  /\ AtMostOneCall
  /\ \E node_order \in Orders(SeqSet(nets[self].nodes \o nets[other].nodes)),
        edge_order \in Orders(SeqSet(nets[self].edges \o nets[other].edges)) :
       Leaves([nets EXCEPT ![self] =
                 PubNet_update(nets[self], nets[other], node_order, edge_order)],
              heap, Returned("update", self, <<other>>, ""))

CallSlice(self, ids) ==
  /\ AtMostOneCall
  /\ LET r == PubNet__slice(heap, nets[self], ids, TRUE)
     IN Leaves(nets, r.heap, Returned("slice", self, <<ids>>, r.exc))

Next ==
  \/ \E name \in NodeTypes : CallAddNode("a", NodeOf("b", name), name)
  \/ \E name \in NodeTypes : CallAddNode("a", Placeholder, name)
  \/ \E name \in EdgeKeys : CallAddEdge("a", name)
  \/ \E name \in NodeTypes : CallDrop("a", StrArg(name), NoneArg)
  \/ \E p \in DropPairs : CallDrop("a", NoneArg, PairArg(p))
  \/ CallUpdate("a", "b")
  \/ \E ids \in IdSets : CallSlice("a", ids)

Spec == Init /\ [][Next]_vars

Containers == {s \in Slots : nets[s] # NoNet}

(* C14: in every state, every node type named in an edge key of a          *)
(* container has a node collection entry in that container.                *)
C14_EdgeTypesHaveNodes ==
  \A s \in Containers : \A k \in DOMAIN nets[s].edge_data :
    \A n \in SeqSet(edge_parts(k)) : n \in DOMAIN nets[s].node_data

(***************************************************************************)
(* Comparing two containers.                                               *)
(***************************************************************************)
AuthorTables ==
  {IdTable("LastName", SetToSeq(OtherIds)), IdTable("LastName", <<1>>),
   IdTable("ForeName", SetToSeq(OtherIds)), Placeholder}

Extras == {"none", "node", "edge"}

(* Author and Publication nodes, the Author-Publication edge and possibly  *)
(* Chemical nodes or the Chemical-Publication edge.                        *)
Comparable(h, authors, rows, extra) ==
  PubNet___init__(h,
    <<Named(authors, "Author"),
      Named(IdTable("Title", SetToSeq(PubIds)), "Publication")>>
      \o (IF extra = "node" THEN <<Named(Placeholder, "Chemical")>> ELSE <<>>),
    <<Named(EdgeObj("Publication", "Author", rows, 2), "Author-Publication")>>
      \o (IF extra = "edge"
            THEN <<Named(EdgeOf("a", "Chemical-Publication"), "Chemical-Publication")>>
            ELSE <<>>),
    "Publication",
    IF extra = "edge" THEN <<"Chemical">> ELSE <<>>)

InitEqual ==
  \E rowsA \in RowLists(Pairs(PubIds, OtherIds), MaxRows),
     rowsB \in RowLists(Pairs(PubIds, {1}), MaxRows),
     authors \in AuthorTables, extra \in Extras :
    LET builtA == Comparable(MkHeap(<<>>), IdTable("LastName", SetToSeq(OtherIds)),
                             rowsA, "none")
        builtB == Comparable(builtA.heap, authors, rowsB, extra)
    IN /\ heap = builtB.heap
       /\ nets = [EmptyNets EXCEPT !["a"] = builtA.net, !["b"] = builtB.net]
       /\ last = NoCall

(* self.isequal(other) and other.isequal(self)                             *)
IsEqual(self, other) ==
  /\ NoCallYet
  /\ last' = [op |-> "isequal", src |-> self, other |-> other,
              there |-> PubNet_isequal(heap, nets[self], nets[other]),
              back |-> PubNet_isequal(heap, nets[other], nets[self])]
  /\ UNCHANGED <<heap, nets>>

NextEqual == IsEqual("a", "b")

SpecEqual == InitEqual /\ [][NextEqual]_vars

Compared == last.op = "isequal"

SameNode(n, m) ==
  /\ SeqSet(n.features) = SeqSet(m.features)
  /\ \A f \in SeqSet(n.features) :
       Node_feature_vector(n, f).val = Node_feature_vector(m, f).val

SameEdge(e, f) ==
  e.start_id = f.start_id /\ e.end_id = f.end_id /\ e.data = f.data

SameContainer(x, y) ==
  /\ SeqSet(x.nodes) = SeqSet(y.nodes)
  /\ SeqSet(x.edges) = SeqSet(y.edges)
  /\ \A n \in SeqSet(x.nodes) : SameNode(x.node_data[n], y.node_data[n])
  /\ \A e \in SeqSet(x.edges) : SameEdge(x.edge_data[e], y.edge_data[e])

(* C15: a.isequal(b) returns true exactly when both containers have the    *)
(* same node type names, the same edge keys and structurally equal         *)
(* collections, returns false otherwise (also when an edge collection of   *)
(* one has more rows), and b.isequal(a) returns the same.                  *)
C15_IsEqualIff ==
  Compared =>
    /\ last.there = [exc |-> "",
                     val |-> SameContainer(View(heap, nets[last.src]),
                                           View(heap, nets[last.other]))]
    /\ last.back = last.there

(***************************************************************************)
(* Edge keys of arbitrary type names.  A string is given by the pieces     *)
(* between its delimiters: "Co-Author" is <<"Co", "Author">>.  Joining     *)
(* with the delimiter concatenates the pieces, splitting on the delimiter  *)
(* returns them.  The delimiter sorts before every letter, so strings      *)
(* compare as their piece sequences do.                                    *)
(***************************************************************************)
MaxPieces == 2

PieceOrder == <<"Author", "Co", "Publication">>

PieceRank(p) == CHOOSE i \in 1..Len(PieceOrder) : PieceOrder[i] = p

Pieces == {PieceOrder[i] : i \in 1..Len(PieceOrder)}

TypeNames == UNION {[1..k -> Pieces] : k \in 1..MaxPieces}

RECURSIVE str_le(_, _)
str_le(x, y) ==
  IF x = <<>> THEN TRUE
  ELSE IF y = <<>> THEN FALSE
  ELSE IF Head(x) = Head(y) THEN str_le(Tail(x), Tail(y))
  ELSE PieceRank(Head(x)) < PieceRank(Head(y))

sorted(pair) == IF str_le(pair[1], pair[2]) THEN pair ELSE <<pair[2], pair[1]>>

str_join(strs) == strs[1] \o strs[2]

str_split(s) == [i \in 1..Len(s) |-> <<s[i]>>]

(* edge_key(node_1, node_2) on such strings                                *)
edge_key_str(node_1, node_2) == str_join(sorted(<<node_1, node_2>>))

(* edge_parts(key) on such strings                                         *)
edge_parts_str(key) ==
  LET parts == str_split(key)
  IN IF Len(parts) # 2 THEN [exc |-> "ValueError", val |-> <<>>]
     ELSE [exc |-> "", val |-> sorted(parts)]

(* container[args] with args a pair of type names.                         *)
PubNet___getitem__pair(h, net, args) == PubNet_get_edge(h, net, args[1], args[2])

InitKeys ==
  \E N \in SUBSET NodeTypes, E \in SUBSET EdgeKeys :
  \E missing \in Orders(EdgeNodes(KeysInOrder(E)) \ N) :
    LET built == Constructed("a", N, E, missing)
    IN /\ heap = built.heap
       /\ nets = [EmptyNets EXCEPT !["a"] = built.net]
       /\ last = NoCall

(* edge_key(a, b), edge_key(b, a) and edge_parts(edge_key(a, b))           *)
EdgeKey(a, b) ==
  /\ NoCallYet
  /\ last' = [op |-> "edge_key", a |-> a, b |-> b,
              key |-> edge_key_str(a, b), swapped |-> edge_key_str(b, a),
              parts |-> edge_parts_str(edge_key_str(a, b))]
  /\ UNCHANGED <<heap, nets>>

(* get_edge(a, b), get_edge(b, a), container[a, b], container[b, a]        *)
GetEdge(self, a, b) ==
  /\ NoCallYet
  /\ last' = [op |-> "get_edge", src |-> self, a |-> a, b |-> b,
              key |-> edge_key(a, b), swapped |-> edge_key(b, a),
              there |-> PubNet_get_edge(heap, nets[self], a, b),
              back |-> PubNet_get_edge(heap, nets[self], b, a),
              item |-> PubNet___getitem__pair(heap, nets[self], <<a, b>>),
              itemBack |-> PubNet___getitem__pair(heap, nets[self], <<b, a>>)]
  /\ UNCHANGED <<heap, nets>>

NextKeys ==
  \/ \E a \in TypeNames, b \in TypeNames : EdgeKey(a, b)
  \/ \E a \in NodeTypes, b \in NodeTypes : GetEdge("a", a, b)

SpecKeys == InitKeys /\ [][NextKeys]_vars

(* C16: edge_key(a, b) = edge_key(b, a); get_edge(a, b), get_edge(b, a),   *)
(* container[a, b] and container[b, a] give the same edge collection; and  *)
(* edge_parts(edge_key(a, b)) returns the sorted pair of a and b.          *)
C16_KeyCanonical ==
  /\ last.op = "edge_key" =>
       /\ last.key = last.swapped
       /\ last.parts = [exc |-> "", val |-> sorted(<<last.a, last.b>>)]
  /\ last.op = "get_edge" =>
       /\ last.key = last.swapped
       /\ last.back = last.there
       /\ last.item = last.there
       /\ last.itemBack = last.there

(***************************************************************************)
(* Neighbour overlap, array backend.                                       *)
(***************************************************************************)
RECURSIVE SumOver(_, _)
SumOver(S, f) ==
  IF S = {} THEN 0
  ELSE LET k == CHOOSE x \in S : TRUE IN f[k] + SumOver(S \ {k}, f)

(* The column of id and the other column.                                  *)
Edge__column_to_indices(e, id) ==
  LET c == Edge__column_to_int(e, id) IN
  IF c.exc # "" THEN [exc |-> c.exc, val |-> <<0, 0>>]
  ELSE [exc |-> "", val |-> <<c.val, 3 - c.val>>]

(* sp.coo_matrix((weights, (rows, cols))).tocsr(): entries given more than *)
(* once are summed.                                                        *)
coo_tocsr(weights, rows, cols) ==
  [i \in SeqSet(rows) |-> [p \in SeqSet(cols) |->
     SumOver({k \in 1..Len(rows) : rows[k] = i /\ cols[k] = p}, weights)]]

(* adj @ adj.T                                                             *)
matmul_transpose(adj) ==
  [i \in DOMAIN adj |-> [j \in DOMAIN adj |->
     SumOver(DOMAIN adj[i], [p \in DOMAIN adj[i] |-> adj[i][p] * adj[j][p]])]]

triu_with_diagonal(res) ==
  {ij \in (DOMAIN res) \X (DOMAIN res) : ij[1] <= ij[2] /\ res[ij[1]][ij[2]] # 0}

(* sp.triu(res - sp.diags(res.diagonal())): the stored entries above the   *)
(* diagonal.                                                               *)
triu(res) ==
  {ij \in (DOMAIN res) \X (DOMAIN res) : ij[1] < ij[2] /\ res[ij[1]][ij[2]] # 0}

ones(n) == [k \in 1..n |-> 1]

Overlapped(e, values) == [edge |-> e, overlap |-> values]

NoOverlap == Overlapped(FreeObj, <<>>)

(* self.overlap(id, weights); features maps feature names to vectors.      *)
NumpyEdge_overlap(e, features, id, weights) ==
  IF weights # "None" /\ weights \notin DOMAIN features
    THEN [exc |-> "KeyError", val |-> NoOverlap]
  ELSE LET cols == Edge__column_to_indices(e, id) IN
  IF cols.exc # "" THEN [exc |-> cols.exc, val |-> NoOverlap]
  ELSE IF e.ndim # 2 THEN [exc |-> "IndexError", val |-> NoOverlap]
  ELSE IF e.data = <<>> THEN [exc |-> "ValueError", val |-> NoOverlap]
  ELSE LET w == IF weights = "None" THEN ones(Len(e.data)) ELSE features[weights]
           primary == [k \in 1..Len(e.data) |-> e.data[k][cols.val[1]]]
           secondary == [k \in 1..Len(e.data) |-> e.data[k][cols.val[2]]]
           res == matmul_transpose(coo_tocsr(w, primary, secondary))
           pairs == SortRows(triu(res))
       IN [exc |-> "",
           val |-> Overlapped(EdgeObj(id, id, pairs, 2),
                              [k \in 1..Len(pairs) |-> res[pairs[k][1]][pairs[k][2]]])]

(* An Author-Publication edge set, rows possibly repeated, with a feature  *)
(* "w" of positive weights.                                                *)
InitOverlap ==
  \E rows \in SeqsUpTo(Pairs(PubIds, OtherIds), MaxRows + 1) :
    /\ heap = MkHeap(<<EdgeObj("Publication", "Author", rows, 2)>>)
    /\ nets = EmptyNets
    /\ last = NoCall

EdgeFeatures(e) == [f \in {"w"} |-> [k \in 1..Len(e.data) |-> 1 + (k % 2)]]

(* edge.overlap(id, weights)                                               *)
Overlap(id, weights) ==
  /\ NoCallYet
  /\ last' = [op |-> "overlap", id |-> id, weights |-> weights,
              edge |-> heap[1], features |-> EdgeFeatures(heap[1]),
              result |-> NumpyEdge_overlap(heap[1], EdgeFeatures(heap[1]),
                                           id, weights)]
  /\ UNCHANGED <<heap, nets>>

NextOverlap ==
  \E id \in NodeTypes, weights \in {"None", "w"} : Overlap(id, weights)

SpecOverlap == InitOverlap /\ [][NextOverlap]_vars

OverlapReturned == last.op = "overlap" /\ last.result.exc = ""

OverlapPairs == last.result.val.edge.data

OverlapValues == last.result.val.overlap

OwnColumn == Edge__column_to_int(last.edge, last.id).val

Neighbors(i) ==
  {last.edge.data[k][3 - OwnColumn] :
     k \in {r \in 1..Len(last.edge.data) : last.edge.data[r][OwnColumn] = i}}

Shared(i, j) == Neighbors(i) \cap Neighbors(j)

OwnIds == {last.edge.data[k][OwnColumn] : k \in 1..Len(last.edge.data)}

WeightOf(i, p) ==
  LET k == CHOOSE r \in 1..Len(last.edge.data) :
             last.edge.data[r][OwnColumn] = i /\ last.edge.data[r][3 - OwnColumn] = p
  IN last.features["w"][k]

DistinctRows ==
  \A k, l \in 1..Len(last.edge.data) : k # l => last.edge.data[k] # last.edge.data[l]

(* C18: overlap emits the pair i < j of distinct identifiers exactly when  *)
(* they share a neighbor; unweighted, the value is the number of shared    *)
(* neighbors (also when rows are repeated); weighted, it is the sum over   *)
(* the shared neighbors of the product of the two edge weights.            *)
C18_OverlapCounts ==
  OverlapReturned =>
    /\ SeqSet(OverlapPairs) =
         {ij \in OwnIds \X OwnIds : ij[1] < ij[2] /\ Shared(ij[1], ij[2]) # {}}
    /\ last.weights = "None" =>
         \A k \in 1..Len(OverlapPairs) :
           OverlapValues[k] =
             Cardinality(Shared(OverlapPairs[k][1], OverlapPairs[k][2]))
    /\ (last.weights = "w" /\ DistinctRows) =>
         \A k \in 1..Len(OverlapPairs) :
           LET i == OverlapPairs[k][1]
               j == OverlapPairs[k][2]
           IN OverlapValues[k] =
                SumOver(Shared(i, j),
                        [p \in Shared(i, j) |-> WeightOf(i, p) * WeightOf(j, p)])

(***************************************************************************)
(* Edge collections, graph backend.  The graph of ig.Graph(data,           *)
(* directed=True) has the identifiers as vertices, one edge per row and    *)
(* the vertex and edge attributes that were set on it.                     *)
(***************************************************************************)
ig_Graph(data) == [es |-> data, es_attributes |-> <<>>, vs_attributes |-> <<>>]

IgraphEdge___init__(data, start_id, end_id) ==
  [kind |-> "igraph", start_id |-> start_id, end_id |-> end_id,
   graph |-> ig_Graph(data)]

(* self[key] with key a string: the edge attribute named key.              *)
IgraphEdge___getitem__(e, key) ==
  IF key = e.start_id \/ key = e.end_id
    THEN IF key \in DOMAIN e.graph.es_attributes
           THEN [exc |-> "", val |-> e.graph.es_attributes[key]]
           ELSE [exc |-> "KeyError", val |-> <<>>]
    ELSE [exc |-> "KeyError", val |-> <<>>]

IgraphEdge_isin(e, column, test_elements) ==
  LET nodes == IgraphEdge___getitem__(e, column) IN
  IF nodes.exc # "" THEN nodes
  ELSE [exc |-> "",
        val |-> [i \in 1..Len(nodes.val) |-> nodes.val[i] \in test_elements]]

Vertices(g) == UNION {{g.es[k][1], g.es[k][2]} : k \in 1..Len(g.es)}

neighbors(g, v) ==
  {g.es[k][2] : k \in {r \in 1..Len(g.es) : g.es[r][1] = v}}
    \cup {g.es[k][1] : k \in {r \in 1..Len(g.es) : g.es[r][2] = v}}

(* The overlap property: vertices of type start_id, pairs in vertex order. *)
IgraphEdge_overlap(e) ==
  IF "NodeType" \notin DOMAIN e.graph.vs_attributes
    THEN [exc |-> "KeyError", val |-> <<>>]
  ELSE LET g == e.graph
           nodes == {v \in Vertices(g) : g.vs_attributes["NodeType"][v] = e.start_id}
           pairs == SortRows({ij \in nodes \X nodes :
                      ij[1] < ij[2] /\ neighbors(g, ij[1]) \cap neighbors(g, ij[2]) # {}})
       IN IF pairs # <<>> /\ "id" \notin DOMAIN g.vs_attributes
            THEN [exc |-> "KeyError", val |-> <<>>]
          ELSE [exc |-> "",
                val |-> [k \in 1..Len(pairs) |->
                  <<g.vs_attributes["id"][pairs[k][1]],
                    g.vs_attributes["id"][pairs[k][2]],
                    Cardinality(neighbors(g, pairs[k][1])
                                  \cap neighbors(g, pairs[k][2]))>>]]

(* _shortest_path reads self._weighted_data, which __init__ never sets.    *)
IgraphEdge__shortest_path(e, target_publications) ==
  [exc |-> "AttributeError", val |-> <<>>]

(* _shortest_path subscripts self.overlap, in NumpyEdge a method.          *)
NumpyEdge__shortest_path(e, target_nodes) ==
  [exc |-> "TypeError", val |-> <<>>]

(* edge.similarity(target_publications, method)                            *)
Edge_similarity(e, target_publications, method) ==
  IF method = "shortest_path"
    THEN IF e.kind = "igraph"
           THEN IgraphEdge__shortest_path(e, target_publications)
           ELSE NumpyEdge__shortest_path(e, target_publications)
  ELSE IF method = "pagerank" THEN [exc |-> "NotImplementedError", val |-> <<>>]
  ELSE [exc |-> "KeyError", val |-> <<>>]

(* The same rows stored by both backends: _edge.from_data(data, ...,       *)
(* representation) with "numpy" and with "igraph".                         *)
InitBackends ==
  \E rows \in SeqsUpTo(Pairs(PubIds, OtherIds), MaxRows) :
    /\ heap = [MkHeap(<<EdgeObj("Publication", "Author", rows, 2)>>)
                 EXCEPT ![2] = IgraphEdge___init__(rows, "Publication", "Author")]
    /\ nets = EmptyNets
    /\ last = NoCall

Both(op, args, array, graph) ==
  [op |-> op, args |-> args, array |-> array, graph |-> graph]

(* edge[key] under each backend                                            *)
Column(key) ==
  /\ NoCallYet
  /\ last' = Both("column", <<key>>, NumpyEdge_column(heap[1], key),
                  IgraphEdge___getitem__(heap[2], key))
  /\ UNCHANGED <<heap, nets>>

(* edge.isin(column, test_elements) under each backend                     *)
IsIn(column, test_elements) ==
  /\ NoCallYet
  /\ last' = Both("isin", <<column, test_elements>>,
                  NumpyEdge_isin(heap[1], column, test_elements),
                  IgraphEdge_isin(heap[2], column, test_elements))
  /\ UNCHANGED <<heap, nets>>

Triples(r) ==
  [exc |-> r.exc,
   val |-> IF r.exc # "" THEN {}
           ELSE {<<r.val.edge.data[k][1], r.val.edge.data[k][2], r.val.overlap[k]>> :
                   k \in 1..Len(r.val.overlap)}]

(* The overlap of the start_id column under each backend, as triples.      *)
OverlapBoth ==
  /\ NoCallYet
  /\ LET graph == IgraphEdge_overlap(heap[2])
     IN last' = Both("overlap", <<>>,
                     Triples(NumpyEdge_overlap(heap[1], <<>>, heap[1].start_id, "None")),
                     [exc |-> graph.exc, val |-> SeqSet(graph.val)])
  /\ UNCHANGED <<heap, nets>>

(* edge.similarity(target_ids, "shortest_path") under each backend         *)
SimilarityBoth(target_ids) ==
  /\ NoCallYet
  /\ LET array == Edge_similarity(heap[1], target_ids, "shortest_path")
         graph == Edge_similarity(heap[2], target_ids, "shortest_path")
     IN last' = Both("similarity", <<target_ids>>,
                     [exc |-> array.exc, val |-> SeqSet(array.val)],
                     [exc |-> graph.exc, val |-> SeqSet(graph.val)])
  /\ UNCHANGED <<heap, nets>>

NextBackends ==
  \/ \E key \in NodeTypes : Column(key)
  \/ \E column \in NodeTypes, ids \in SUBSET PubIds : IsIn(column, ids)
  \/ OverlapBoth
  \/ \E ids \in SUBSET PubIds : SimilarityBoth(ids)

SpecBackends == InitBackends /\ [][NextBackends]_vars

(* C19: for the same rows and the same arguments the array backend and the *)
(* graph backend return the same column, the same isin mask, the same set  *)
(* of overlap triples and the same set of shortest-path triples.           *)
C19_BackendsAgree ==
  last.op \in {"column", "isin", "overlap", "similarity"} =>
    last.graph = last.array

(***************************************************************************)
(* Shortest-path similarity (_similarity/numpy_metrics.py).  edges is the  *)
(* overlap array, rows (i, j, count).  A distance is kept as a multiple of *)
(* 1/Scale, so that the weight 1/count is the integer Scale \div count; a  *)
(* node without an entry in dist is at distance infinity.                  *)
(***************************************************************************)
MaxCount == 3

RECURSIVE Factorial(_)
Factorial(n) == IF n <= 1 THEN 1 ELSE n * Factorial(n - 1)

Scale == Factorial(MaxCount)

EdgeNodes2(edges) == UNION {{edges[k][1], edges[k][2]} : k \in 1..Len(edges)}

(* _renumber: the targets found in the edges come first, in order, then    *)
(* the other nodes; indices start at 0.                                    *)
numpy_metrics__renumber(edges, target_nodes) ==
  LET targets == SetToSeq(EdgeNodes2(edges) \cap target_nodes)
      order == targets \o SetToSeq(EdgeNodes2(edges) \ target_nodes)
  IN [edges |-> [k \in 1..Len(edges) |->
                   <<IndexOf(order, edges[k][1]) - 1,
                     IndexOf(order, edges[k][2]) - 1, edges[k][3]>>],
      target_nodes |-> targets]

Max(S) == CHOOSE x \in S : \A y \in S : y <= x

(* dist[to] = np.minimum(dist[to], dist[from] + w)                         *)
Relax(dist, from, to, w) ==
  IF from \notin DOMAIN dist THEN dist
  ELSE IF to \in DOMAIN dist /\ dist[to] <= dist[from] + w THEN dist
  ELSE (to :> dist[from] + w) @@ dist

RECURSIVE RelaxAll(_, _, _, _, _)
RelaxAll(dist, d_j, edges, own, k) ==
  IF k > Len(edges) THEN dist
  ELSE RelaxAll(IF edges[k][own] = d_j
                  THEN Relax(dist, d_j, edges[k][3 - own], Scale \div edges[k][3])
                  ELSE dist,
                d_j, edges, own, k + 1)

Closer(dist, a, b) ==
  a \in DOMAIN dist /\ (b \notin DOMAIN dist \/ dist[a] < dist[b])

(* np.argmin(dist[unmarked]): the first position of a smallest distance.   *)
argmin(dist, unmarked) ==
  Min({p \in 1..Len(unmarked) :
         \A q \in 1..Len(unmarked) : ~Closer(dist, unmarked[q], unmarked[p])})

Pop(seq, p) == [i \in 1..(Len(seq) - 1) |-> IF i < p THEN seq[i] ELSE seq[i + 1]]

(* while len(unmarked) > 0: ...                                            *)
RECURSIVE Sweep(_, _, _, _, _)
Sweep(dist, unmarked, edges, max_row, max_col) ==
  IF unmarked = <<>> THEN dist
  ELSE LET p == argmin(dist, unmarked)
           d_j == unmarked[p]
           byRow == IF d_j <= max_row THEN RelaxAll(dist, d_j, edges, 1, 1) ELSE dist
           byCol == IF d_j <= max_col THEN RelaxAll(byRow, d_j, edges, 2, 1) ELSE byRow
       IN Sweep(byCol, Pop(unmarked, p), edges, max_row, max_col)

Zeros(n) == [k \in 1..n |-> <<0, 0, 0>>]

(* shortest_path(target_nodes, edges): one sweep per target found in the   *)
(* edges; out has int(finite entries / 2) rows, filled with the pairs      *)
(* i < j at finite distance.  coo_matrix cannot infer a shape from empty   *)
(* index arrays and raises ValueError.                                     *)
numpy_metrics_shortest_path(target_nodes, edges) ==
  IF edges = <<>> THEN [exc |-> "ValueError", val |-> <<>>]
  ELSE
    LET all_nodes == EdgeNodes2(edges) \cup target_nodes
        new == numpy_metrics__renumber(edges, target_nodes)
        T == Len(new.target_nodes)
        max_row == Max({new.edges[k][1] : k \in 1..Len(new.edges)})
        max_col == Max({new.edges[k][2] : k \in 1..Len(new.edges)})
        unmarked == [i \in 1..Cardinality(all_nodes) |-> i - 1]
        dist == [src \in 0..(T - 1) |->
                   Sweep((src :> 0), unmarked, new.edges, max_row, max_col)]
        finite == {p \in (0..(T - 1)) \X (0..(T - 1)) :
                     p[2] # p[1] /\ p[2] \in DOMAIN dist[p[1]]}
        found == SortRows({p \in finite : p[1] < p[2]})
        size == Cardinality(finite) \div 2
    IN IF Len(found) > size THEN [exc |-> "IndexError", val |-> <<>>]
       ELSE [exc |-> "",
             val |-> [k \in 1..Len(found) |->
                        <<new.target_nodes[found[k][1] + 1],
                          new.target_nodes[found[k][2] + 1],
                          dist[found[k][1]][found[k][2]]>>]
                     \o Zeros(size - Len(found))]

(***************************************************************************)
(* Similarity of publications.  The Publication-Author edge set is built   *)
(* so that the publications stand on a ring, two neighbours sharing        *)
(* between 0 and MaxCount authors; every publication also has an author of *)
(* its own.                                                                *)
(***************************************************************************)
GraphNodes == 1..(MaxPub + 1)

GraphPairs ==
  SortRows({p \in GraphNodes \X GraphNodes :
              p[2] = p[1] + 1 \/ (p[1] = 1 /\ p[2] = Max(GraphNodes) /\ p[2] > 1)})

SharedRows(p, first, c) ==
  IF c = 0 THEN <<>>
  ELSE [k \in 1..(2 * c) |-> <<p[1 + ((k - 1) % 2)], first + ((k - 1) \div 2)>>]

RECURSIVE AuthorRows(_, _)
AuthorRows(shared, k) ==
  IF k > Len(GraphPairs)
    THEN [n \in 1..Cardinality(GraphNodes) |-> <<n, Len(GraphPairs) * MaxCount + n>>]
  ELSE SharedRows(GraphPairs[k], (k - 1) * MaxCount + 1, shared[k])
         \o AuthorRows(shared, k + 1)

InitSimilarity ==
  \E shared \in [1..Len(GraphPairs) -> 0..MaxCount] :
    /\ heap = MkHeap(<<EdgeObj("Publication", "Author", AuthorRows(shared, 1), 2)>>)
    /\ nets = EmptyNets
    /\ last = NoCall

(* The overlap array of the edge set, rows (i, j, count).                  *)
OverlapArray(e) ==
  LET o == NumpyEdge_overlap(e, EdgeFeatures(e), "Publication", "None")
  IN [exc |-> o.exc,
      val |-> IF o.exc # "" THEN <<>>
              ELSE [k \in 1..Len(o.val.overlap) |->
                      <<o.val.edge.data[k][1], o.val.edge.data[k][2],
                        o.val.overlap[k]>>]]

(* shortest_path(target_nodes, edge.overlap("Publication"))                *)
ShortestPath(target_nodes) ==
  /\ NoCallYet
  /\ LET edges == OverlapArray(heap[1])
     IN last' = [op |-> "shortest_path", target_nodes |-> target_nodes,
                 edges |-> edges.val,
                 result |-> IF edges.exc # "" THEN edges
                            ELSE numpy_metrics_shortest_path(target_nodes, edges.val)]
  /\ UNCHANGED <<heap, nets>>

(* edge.similarity(target_publications, "shortest_path")                   *)
Similarity(target_publications) ==
  /\ NoCallYet
  /\ last' = [op |-> "similarity", target_nodes |-> target_publications,
              edges |-> OverlapArray(heap[1]).val,
              result |-> Edge_similarity(heap[1], target_publications,
                                         "shortest_path")]
  /\ UNCHANGED <<heap, nets>>

NextSimilarity ==
  \/ \E target_nodes \in SUBSET GraphNodes : ShortestPath(target_nodes)
  \/ Similarity(GraphNodes)

SpecSimilarity == InitSimilarity /\ [][NextSimilarity]_vars

SimilarityReturned == last.op \in {"shortest_path", "similarity"}

(* The weight of the overlap edge between a and b, if there is one.        *)
Linked(a, b) ==
  {k \in 1..Len(last.edges) : {last.edges[k][1], last.edges[k][2]} = {a, b} /\ a # b}

WeightBetween(a, b) == Scale \div last.edges[CHOOSE k \in Linked(a, b) : TRUE][3]

(* The least sum of weights over the paths of at most n edges from a, for  *)
(* every node such a path reaches.                                         *)
RECURSIVE Within(_, _)
Within(a, n) ==
  IF n = 0 THEN (a :> 0)
  ELSE LET prev == Within(a, n - 1)
           sums(v) == {prev[u] + WeightBetween(u, v) :
                         u \in {x \in DOMAIN prev : Linked(x, v) # {}}}
                      \cup (IF v \in DOMAIN prev THEN {prev[v]} ELSE {})
       IN [v \in {x \in GraphNodes : sums(x) # {}} |-> Min(sums(v))]

Distances ==
  {<<p[1], p[2], Within(p[1], Cardinality(GraphNodes))[p[2]]>> :
     p \in {q \in last.target_nodes \X last.target_nodes :
              q[1] < q[2] /\ q[2] \in DOMAIN Within(q[1], Cardinality(GraphNodes))}}

(* C20: similarity(target_ids, "shortest_path") returns, without an error, *)
(* one triple (i, j, d) for every pair i < j of target ids joined by a     *)
(* path of the overlap graph, d the least sum of 1/count over such paths   *)
(* (through targets or not), and nothing else: no pair without a path, no  *)
(* self pair, and an empty result when no overlap edge reaches the         *)
(* targets.                                                                *)
C20_ShortestPathDistances ==
  SimilarityReturned =>
    /\ last.result.exc = ""
    /\ Range(last.result.val) = Distances
    /\ Len(last.result.val) = Cardinality(Distances)

(***************************************************************************)
(* Similarity methods.  all_methods[method] is looked up inside the try    *)
(* block, which catches AbstractMethodError only; the message of the       *)
(* NotImplementedError raised instead is built from method and             *)
(* type(self).__name__.                                                    *)
(***************************************************************************)
type_name(e) == IF e.kind = "igraph" THEN "IgraphEdge" ELSE "NumpyEdge"

Methods == {"shortest_path", "pagerank", "jaccard"}

Edge_similarity_raised(e, target_publications, method) ==
  LET r == Edge_similarity(e, target_publications, method)
  IN [exc |-> r.exc, val |-> r.val,
      message |-> IF r.exc = "NotImplementedError"
                    THEN <<"Similarity method", method, "not implemented for",
                           type_name(e)>>
                    ELSE <<>>]

(* heap[ref].similarity(target_publications, method)                       *)
SimilarityMethod(ref, target_publications, method) ==
  /\ NoCallYet
  /\ last' = [op |-> "similarity", edge |-> heap[ref], method |-> method,
              target_publications |-> target_publications,
              result |-> Edge_similarity_raised(heap[ref], target_publications,
                                                method)]
  /\ UNCHANGED <<heap, nets>>

NextMethods ==
  \E ref \in 1..2, target_publications \in SUBSET PubIds, method \in Methods :
    SimilarityMethod(ref, target_publications, method)

SpecMethods == InitBackends /\ [][NextMethods]_vars

(* The methods a backend has an implementation for.                        *)
Implemented == {"shortest_path"}

(* C21: similarity with a method the backend has no implementation for,    *)
(* known to the base class or not, raises a not-implemented error whose    *)
(* message names the method and the backend class; no other kind of error  *)
(* is raised and no value is returned.                                     *)
C21_UnsupportedMethod ==
  (last.op = "similarity" /\ last.method \notin Implemented) =>
    /\ last.result.exc = "NotImplementedError"
    /\ \E i, j \in DOMAIN last.result.message :
         /\ last.result.message[i] = last.method
         /\ last.result.message[j] = type_name(last.edge)

(***************************************************************************)
(* Adding to a container: add_node(data, name) and add_edge(data, name),   *)
(* name a key or a pair of node types, which add_edge turns into the key.  *)
(***************************************************************************)
PubNet_add_edge_named(h, net, data, name) ==
  PubNet_add_edge(h, net, data,
                  IF name.kind = "pair" THEN edge_key(name.val[1], name.val[2])
                  ELSE name.val)

AddNode(self, data, name) ==
  /\ AtMostOneCall
  /\ LET r == PubNet_add_node(heap, nets[self], data, name)
     IN Leaves([nets EXCEPT ![self] = r.net], r.heap,
               Returned("add_node", self, [name |-> name, data |-> data], r.exc))

AddEdge(self, data, name) ==
  /\ AtMostOneCall
  /\ LET r == PubNet_add_edge_named(heap, nets[self], data, name)
     IN Leaves([nets EXCEPT ![self] = r.net], r.heap,
               Returned("add_edge", self, [name |-> name, data |-> data], r.exc))

NextAdd ==
  \/ \E name \in NodeTypes : \E data \in {NodeOf("b", name), Placeholder} :
       AddNode("a", data, name)
  \/ \E key \in EdgeKeys : AddEdge("a", EdgeOf("b", key), StrArg(key))
  \/ \E key \in EdgeKeys : \E p \in Orders({StartOf(key), EndOf(key)}) :
       AddEdge("a", EdgeOf("b", key), PairArg(p))

SpecAdd == Init /\ [][NextAdd]_vars

Added == last.op \in {"add_node", "add_edge"}

AddedKey ==
  IF last.op = "add_node" THEN last.args.name
  ELSE IF last.args.name.kind = "pair"
    THEN edge_key(last.args.name.val[1], last.args.name.val[2])
  ELSE last.args.name.val

(* C23: add_node with a name the container has and add_edge with a key the *)
(* container has, the pair given in either order, raise and leave the key  *)
(* lists and both mappings as they were; otherwise the add returns, the    *)
(* key is appended once to its list and the collection is stored under     *)
(* it, the other list and mapping unchanged.                               *)
C23_KeysUnique ==
  Added =>
    LET now == View(heap, nets[last.src])
        pre == last.pre
        key == AddedKey
        isNode == last.op = "add_node"
        held == IF isNode THEN pre.nodes ELSE pre.edges
    IN IF key \in SeqSet(held)
         THEN last.exc # "" /\ now = pre
       ELSE /\ last.exc = ""
            /\ now.root = pre.root
            /\ now.nodes = IF isNode THEN Append(pre.nodes, key) ELSE pre.nodes
            /\ now.edges = IF isNode THEN pre.edges ELSE Append(pre.edges, key)
            /\ now.node_data = IF isNode THEN (key :> last.args.data) @@ pre.node_data
                               ELSE pre.node_data
            /\ now.edge_data = IF isNode THEN pre.edge_data
                               ELSE (key :> last.args.data) @@ pre.edge_data
            /\ Count(IF isNode THEN now.nodes ELSE now.edges, key) = 1

C23_Witness ==
  /\ last.op = "add_edge" /\ last.exc # ""
  /\ last.args.name.kind = "pair"
  /\ Rank(last.args.name.val[1]) > Rank(last.args.name.val[2])
  /\ last.prev.op = "add_edge"
  /\ Len(nets[last.src].edges) = Cardinality(EdgeKeys)

(***************************************************************************)
(* Slicing a container whose root is not one of its node types:            *)
(* PubNet(nodes, edges, root) with a root that neither the nodes nor the   *)
(* edges name (__init__ only warns).                                       *)
(***************************************************************************)
InitRootless ==
  \E root \in NodeTypes, N \in SUBSET NodeTypes, E \in SUBSET EdgeKeys :
  \E missing \in Orders(EdgeNodes(KeysInOrder(E)) \ N) :
    /\ root \notin N \cup EdgeNodes(KeysInOrder(E))
    /\ LET built ==
             PubNet___init__(MkHeap(<<>>),
               [i \in 1..Cardinality(N) |->
                  Named(IdTable("Name", SetToSeq(PubIds)), InOrder(N)[i])],
               [i \in 1..Cardinality(E) |->
                  Named(EdgeOf("a", KeysInOrder(E)[i]), KeysInOrder(E)[i])],
               root, missing)
       IN /\ heap = built.heap
          /\ nets = [EmptyNets EXCEPT !["a"] = built.net]
          /\ last = NoCall

NextRootless ==
  \/ \E ids \in IdSets : GetItem("a", "sub", ids)
  \/ \E ids \in IdSets : Slice("a", "sub", ids, FALSE)

SpecRootless == InitRootless /\ [][NextRootless]_vars

(* C24: when the root is not among the node types of the container, a      *)
(* slice by any identifiers, with any edge collections present, returns    *)
(* without raising a container that isequal the original.                  *)
C24_RootlessSliceNoOp ==
  (Sliced /\ last.pre.root \notin SeqSet(last.pre.nodes)) =>
    /\ last.exc = ""
    /\ PubNet_isequal(heap, nets[last.dst], nets[last.src]) = True

(***************************************************************************)
(* Sampling rows of a node collection.  rng.integers(0, rows, size=(n,))   *)
(* is an input of the call: any n positions below the number of rows, the  *)
(* ones the generator yields for the seed.                                 *)
(***************************************************************************)
MaxDraws == 2

(* self._data.loc[labels]: the rows whose index value is the label, for    *)
(* every label in turn; a label that no row has is a KeyError.             *)
DataFrame_loc(n, labels) ==
  IF \E k \in 1..Len(labels) : labels[k] \notin SeqSet(Node_index(n))
    THEN [exc |-> "KeyError", val |-> <<>>]
  ELSE [exc |-> "",
        val |-> [k \in 1..Len(labels) |->
                   n.rows[IndexOf(Node_index(n), labels[k])]]]

Node_get_random(node, n, integers) ==
  IF Node___len__(node) = 0 THEN [exc |-> "ValueError", val |-> <<>>]
  ELSE DataFrame_loc(node, integers)

(* Node collections whose identifiers start at 0 or at 1, whole or after a *)
(* slice kept the rows of a mask.                                          *)
InitRandom ==
  \E first \in 0..1, rows \in 1..(MaxPub + 1) :
  \E mask \in [1..rows -> BOOLEAN] :
    LET whole == IdTable("Name", [i \in 1..rows |-> first + i - 1])
    IN /\ heap = MkHeap(<<Node_set_data(whole, Node___getitem__mask(whole, mask))>>)
       /\ nets = EmptyNets
       /\ last = NoCall

(* heap[1].get_random(n, seed)                                             *)
GetRandom(n, integers) ==
  /\ AtMostOneCall
  /\ last' = [op |-> "get_random", n |-> n, integers |-> integers,
              node |-> heap[1],
              result |-> Node_get_random(heap[1], n, integers),
              prev |-> [op |-> last.op]]
  /\ UNCHANGED <<heap, nets>>

NextRandom ==
  \E n \in 1..MaxDraws :
    \/ \E integers \in [1..n -> 0..(Node___len__(heap[1]) - 1)] : GetRandom(n, integers)
    \/ Node___len__(heap[1]) = 0 /\ GetRandom(n, <<>>)

SpecRandom == InitRandom /\ [][NextRandom]_vars

(* C26: on a node collection with at least one row, whatever its           *)
(* identifiers, get_random(n, seed) does not fail and returns n rows, the  *)
(* k-th being the row at the k-th position drawn from 0..rows-1.           *)
C26_RandomRows ==
  (last.op = "get_random" /\ Node___len__(last.node) > 0) =>
    /\ last.result.exc = ""
    /\ last.result.val = [k \in 1..last.n |-> last.node.rows[last.integers[k] + 1]]

(***************************************************************************)
(* Switching the root.  select_root assigns the root when new_root is a    *)
(* node type and then, in either case, reaches the raise.                  *)
(***************************************************************************)
PubNet_select_root(h, net, new_root) ==
  Failed("KeyError", h,
         IF new_root \in SeqSet(net.nodes) THEN [net EXCEPT !.root = new_root]
         ELSE net)

SelectRoot(self, new_root) ==
  /\ AtMostOneCall
  /\ LET r == PubNet_select_root(heap, nets[self], new_root)
     IN Leaves([nets EXCEPT ![self] = r.net], r.heap,
               Returned("select_root", self, <<new_root>>, r.exc))

NextRoot ==
  \/ \E new_root \in NodeTypes : SelectRoot("a", new_root)
  \/ \E ids \in IdSets : CallSlice("a", ids)

SpecRoot == Init /\ [][NextRoot]_vars

(* C27: select_root(new_root) with new_root a node type of the container   *)
(* returns normally and the root is new_root; with new_root not a node     *)
(* type it raises KeyError and the root is unchanged.                      *)
C27_SelectRoot ==
  last.op = "select_root" =>
    IF last.args[1] \in SeqSet(last.pre.nodes)
      THEN last.exc = "" /\ nets[last.src].root = last.args[1]
      ELSE last.exc = "KeyError" /\ nets[last.src].root = last.pre.root

(* C28: in every state of a container, after calls that return and calls   *)
(* that raise, the names in the node key list are the keys of the node     *)
(* mapping and the keys in the edge key list are the keys of the edge      *)
(* mapping.                                                                *)
C28_KeyListsMatchMappings ==
  \A s \in Containers :
    /\ SeqSet(nets[s].nodes) = DOMAIN nets[s].node_data
    /\ SeqSet(nets[s].edges) = DOMAIN nets[s].edge_data

(* C29: a.update(b) changes nothing in b, and a mutating call on a that    *)
(* follows it (a slice with mutate, a drop) leaves every node and edge     *)
(* collection of b as it was.                                              *)
C29_IndependentAfterUpdate ==
  /\ last.op = "update" => View(heap, nets["b"]) = last.preOther
  /\ (last.op \in {"slice", "drop"} /\ last.prev.op = "update") =>
       View(heap, nets["b"]) = last.preOther

(***************************************************************************)
(* Repeated similarity calls on one edge collection.  Neither backend      *)
(* gets as far as storing an overlap or a weighted graph: the call raises  *)
(* before it assigns anything, so the edge object is left as it was.       *)
(***************************************************************************)
SimilarityCall(ref, target_publications) ==
  /\ AtMostOneCall
  /\ last' = [op |-> "similarity", ref |-> ref,
              target_publications |-> target_publications,
              result |-> Edge_similarity(heap[ref], target_publications,
                                         "shortest_path"),
              prev |-> IF last.op = "init" THEN last
                       ELSE [op |-> last.op, ref |-> last.ref,
                             target_publications |-> last.target_publications]]
  /\ UNCHANGED <<heap, nets>>

NextHistory ==
  \E ref \in 1..2, target_publications \in SUBSET PubIds :
    SimilarityCall(ref, target_publications)

SpecHistory == InitBackends /\ [][NextHistory]_vars

(* The edge collection built anew from the same rows.                      *)
Fresh(ref) ==
  IF ref = 1 THEN EdgeObj(heap[1].start_id, heap[1].end_id, heap[1].data, 2)
  ELSE IgraphEdge___init__(heap[1].data, heap[1].start_id, heap[1].end_id)

(* C30: a similarity(target_ids, "shortest_path") call that follows an     *)
(* earlier similarity call on the same edge collection, with the same or   *)
(* with other targets, returns a result, and it is the result the call     *)
(* returns on an edge collection freshly built from the same rows.         *)
C30_HistoryIndependent ==
  (last.op = "similarity" /\ last.prev.op = "similarity"
     /\ last.prev.ref = last.ref) =>
    /\ last.result.exc = ""
    /\ last.result = Edge_similarity(Fresh(last.ref), last.target_publications,
                                     "shortest_path")

(***************************************************************************)
(* Storage: save_graph, load_graph, delete_graph.  The directories of the  *)
(* data directory are kept with the objects, under the last reference; a   *)
(* directory holds files, a file the table that was written to it.         *)
(***************************************************************************)
DiskRef == MaxObj

None == "None"

DataDir == "data"

GraphNames == {"graph", "other"}

os_path_join(data_dir, name) == <<data_dir, name>>

Paths == {os_path_join(DataDir, n) : n \in GraphNames}

NoDir == [exists |-> FALSE, files |-> {}]

DiskObj(dirs) == [kind |-> "disk", dirs |-> dirs]

FileObj(type, key, ext, obj) ==
  [type |-> type, key |-> key, ext |-> ext, obj |-> obj]

Done(disk) == [exc |-> "", disk |-> disk]

Broke(e, disk) == [exc |-> e, disk |-> disk]

(* graph_path(name, data_dir): the directory of the graph in data_dir.     *)
graph_path(name, data_dir) == os_path_join(data_dir, name)

(* delete_graph(graph_name, data_dir) with data_dir given.                 *)
delete_graph(disk, graph_name, data_dir) ==
  LET path == os_path_join(data_dir, graph_name)
  IN IF disk[path].exists
       THEN Done([disk EXCEPT ![path] = NoDir])
       ELSE Broke("NotADirectoryError", disk)

NodeExt == [binary |-> "feather", gzip |-> "tsv.gz", tsv |-> "tsv"]

Written(disk, path, file) ==
  [disk EXCEPT ![path] =
     [exists |-> TRUE,
      files |-> {f \in @.files : <<f.type, f.key, f.ext>>
                                   # <<file.type, file.key, file.ext>>}
                 \cup {file}]]

(* node.to_file(data_dir, <keyword>=format): the parameters of to_file are *)
(* (self, data_dir, format).                                               *)
Node_to_file(disk, node, name, data_dir, keyword, format) ==
  IF keyword # "format" THEN Broke("TypeError", disk)
  ELSE IF format \notin DOMAIN NodeExt THEN Broke("KeyError", disk)
  ELSE Done(Written(disk, data_dir,
                    FileObj("node", name, NodeExt[format], node)))

(* edge.to_file(data_dir, <keyword>=format): the parameters of to_file are *)
(* (self, edge_name, graph_name, data_dir, format), and the method is      *)
(* abstract.                                                               *)
Edge_to_file(disk, edge, positional, keyword) ==
  IF keyword # "format" \/ Len(positional) # 3
    THEN Broke("TypeError", disk)
    ELSE Broke("AbstractMethodError", disk)

RECURSIVE WriteAll(_, _, _, _, _, _)
WriteAll(done, h, net, keys, save_dir, file_format) ==
  IF keys = <<>> \/ done.exc # "" THEN done
  ELSE LET k == Head(keys)
           next == IF k \in SeqSet(net.nodes)
                     THEN Node_to_file(done.disk, h[net.node_data[k]], k,
                                       save_dir, "file_format", file_format)
                     ELSE Edge_to_file(done.disk, h[net.edge_data[k]],
                                       <<save_dir>>, "file_format")
       IN WriteAll(next, h, net, Tail(keys), save_dir, file_format)

(* self.save_graph(name, nodes="all", edges="all", data_dir, file_format,  *)
(* overwrite) of a container constructed without a name.                   *)
PubNet_save_graph(h, disk, net, name, data_dir, file_format, overwrite) ==
  LET item(k) == PubNet___getitem__str(h, net, k)
      HasRows(n) == Node___len__(item(n).val) > 0
      HasEdges(e) == NumpyEdge___len__(item(e).val) > 0
  IN IF \E k \in SeqSet(net.nodes) \cup SeqSet(net.edges) : item(k).exc # ""
       THEN Broke("KeyError", disk)
     ELSE LET nodes == SelectSeq(net.nodes, HasRows)
              edges == SelectSeq(net.edges, HasEdges)
          IN IF name = None THEN Broke("ValueError", disk)
             ELSE LET save_dir == graph_path(name, data_dir)
                      cleared == IF overwrite
                                   THEN delete_graph(disk, name, data_dir)
                                   ELSE Done(disk)
                  IN WriteAll(cleared, h, net, nodes \o edges, save_dir,
                              file_format)

node_ext_preference == <<"feather", "tsv", "tsv.gz">>

edge_ext_preference == <<"npy", "tsv", "tsv.gz", "pickle">>

(* node_list_files / edge_list_files: for each key the files by extension. *)
list_files(dir, type) ==
  [k \in {f.key : f \in {g \in dir.files : g.type = type}} |->
     {f \in dir.files : f.type = type /\ f.key = k}]

(* node_find_file / edge_find_file                                         *)
find_file(key, path_dict, ext_preference) ==
  IF key \notin DOMAIN path_dict THEN [exc |-> "FileNotFoundError"]
  ELSE LET found == {i \in 1..Len(ext_preference) :
                       \E f \in path_dict[key] : f.ext = ext_preference[i]}
       IN IF found = {} THEN [exc |-> "FileNotFoundError"]
          ELSE [exc |-> "",
                val |-> CHOOSE f \in path_dict[key] :
                          f.ext = ext_preference[Min(found)]]

(* Node.from_file(file_name)                                               *)
Node_from_file(file) ==
  Named(NodeObj(file.obj.features, file.obj.rows), file.key)

edge_gen_header(start_id, end_id) == <<<<"START", start_id>>, <<"END", end_id>>>>

edge_header_parts(header) ==
  LET start_id == (CHOOSE p \in SeqSet(header) : p[1] = "START")[2]
      end_id == (CHOOSE p \in SeqSet(header) : p[1] = "END")[2]
      reverse == header[1][1] = "END"
  IN <<start_id, end_id, <<>>, reverse>>

(* _edge.from_file(file_name, representation): the header parts are        *)
(* unpacked into start_id, end_id, flip.                                   *)
Edge_from_file(file, representation) ==
  IF file.ext \notin {"tsv", "npy", "ig", "tsv.gz"}
    THEN [exc |-> "ValueError"]
  ELSE LET parts == edge_header_parts(edge_gen_header(file.obj.start_id,
                                                      file.obj.end_id))
       IN IF Len(parts) # 3 THEN [exc |-> "ValueError"]
          ELSE [exc |-> "",
                val |-> Named(
                  EdgeObj(parts[1], parts[2],
                          IF parts[3]
                            THEN [i \in 1..Len(file.obj.data) |->
                                    <<file.obj.data[i][2], file.obj.data[i][1]>>]
                            ELSE file.obj.data, 2),
                  file.key)]

(* PubNet.load_graph(name, "all", "all", root, data_dir, representation);  *)
(* node_order and edge_order are the orders of the file dictionaries.      *)
PubNet_load_graph(h, disk, name, root, data_dir, representation, node_order, edge_order, missing) ==
  LET save_dir == graph_path(name, data_dir)
      all_edge_files == list_files(disk[save_dir], "edge")
      all_node_files == list_files(disk[save_dir], "node")
      edge_files == [e \in DOMAIN all_edge_files |->
                       find_file(e, all_edge_files, edge_ext_preference)]
      node_files == [n \in DOMAIN all_node_files |->
                       find_file(n, all_node_files, node_ext_preference)]
  IN IF ~disk[save_dir].exists THEN Failed("FileNotFoundError", h, NoNet)
     ELSE IF \E e \in DOMAIN edge_files : edge_files[e].exc # ""
       THEN Failed("FileNotFoundError", h, NoNet)
     ELSE IF \E n \in DOMAIN node_files : node_files[n].exc # ""
       THEN Failed("FileNotFoundError", h, NoNet)
     ELSE LET net_nodes == [i \in 1..Len(node_order) |->
                              Node_from_file(node_files[node_order[i]].val)]
              net_edges == [i \in 1..Len(edge_order) |->
                              Edge_from_file(edge_files[edge_order[i]].val,
                                             representation)]
          IN IF \E i \in 1..Len(net_edges) : net_edges[i].exc # ""
               THEN Failed("ValueError", h, NoNet)
             ELSE PubNet___init__(h, net_nodes,
                                  [i \in 1..Len(net_edges) |-> net_edges[i].val],
                                  root, missing)

StoredNodes == {"Author", "Publication"}

StoredEdges == {"Author-Publication"}

Formats == {"tsv", "gzip", "binary", "xml"}

(* The directory of graph "graph" before the calls: absent, empty, or with *)
(* the files of a graph stored earlier.                                    *)
OldFiles ==
  LET author(ext, id) == FileObj("node", "Author", ext, IdTable("Name", <<id>>))
      edge(ext) == FileObj("edge", "Author-Publication", ext,
                           EdgeObj("Publication", "Author", <<<<2, 2>>>>, 2))
  IN {{}, {author("tsv", 1)}, {author("tsv", 2), author("feather", 1)},
      {author("tsv.gz", 1), edge("tsv")}, {edge("ig")}}

OldDirs == {NoDir} \cup {[exists |-> TRUE, files |-> fs] : fs \in OldFiles}

InitStorage ==
  \E N \in SUBSET StoredNodes, E \in SUBSET StoredEdges :
  \E ids \in [N -> {<<>>, <<1>>}], rows \in [E -> {<<>>, <<<<1, 1>>>>}],
     missing \in Orders(EdgeNodes(KeysInOrder(E)) \ N), old \in OldDirs :
    LET disk == [p \in Paths |->
                   IF p = graph_path("graph", DataDir) THEN old ELSE NoDir]
        built ==
          PubNet___init__(
            [r \in Refs |-> IF r = DiskRef THEN DiskObj(disk) ELSE FreeObj],
            [i \in 1..Cardinality(N) |->
               Named(IdTable("Name", ids[InOrder(N)[i]]), InOrder(N)[i])],
            [i \in 1..Cardinality(E) |->
               Named(EdgeObj("Publication", "Author",
                             rows[KeysInOrder(E)[i]], 2),
                     KeysInOrder(E)[i])],
            "Publication", missing)
    IN /\ heap = built.heap
       /\ nets = [EmptyNets EXCEPT !["a"] = built.net]
       /\ last = NoCall

Disk == heap[DiskRef].dirs

StorageCall(op, name, file_format, overwrite, exc) ==
  [op |-> op, name |-> name, file_format |-> file_format,
   overwrite |-> overwrite, exc |-> exc, disk |-> Disk,
   prev |-> IF last.op = "init" THEN last
            ELSE [op |-> last.op, name |-> last.name, exc |-> last.exc,
                  file_format |-> last.file_format]]

SaveGraph(name, file_format, overwrite) ==
  /\ AtMostOneCall
  /\ LET r == PubNet_save_graph(heap, Disk, nets["a"], name, DataDir,
                                file_format, overwrite)
     IN /\ heap' = [heap EXCEPT ![DiskRef] = DiskObj(r.disk)]
        /\ last' = StorageCall("save_graph", name, file_format, overwrite,
                               r.exc)
  /\ UNCHANGED nets

LoadGraph(name, representation) ==
  /\ AtMostOneCall
  /\ LET dir == Disk[graph_path(name, DataDir)]
         nodeKeys == DOMAIN list_files(dir, "node")
         edgeKeys == DOMAIN list_files(dir, "edge")
     IN \E node_order \in Orders(nodeKeys), edge_order \in Orders(edgeKeys) :
        \E missing \in Orders(EdgeNodes(edge_order) \ nodeKeys) :
          LET r == PubNet_load_graph(heap, Disk, name, "Publication", DataDir,
                                     representation, node_order, edge_order,
                                     missing)
              nets2 == IF r.exc = "" THEN [nets EXCEPT !["b"] = r.net]
                       ELSE nets
          IN /\ nets' = nets2
             /\ heap' = [Collect(r.heap, nets2) EXCEPT ![DiskRef] = heap[DiskRef]]
             /\ last' = StorageCall("load_graph", name, representation, FALSE,
                                    r.exc)

NextStorage ==
  \/ \E name \in GraphNames \cup {None}, file_format \in Formats,
        overwrite \in BOOLEAN :
       SaveGraph(name, file_format, overwrite)
  \/ \E name \in GraphNames : LoadGraph(name, "numpy")

SpecStorage == InitStorage /\ [][NextStorage]_vars

(* C22: save_graph(name, data_dir, file_format) with a supported format,   *)
(* followed by load_graph(name, data_dir) with the representation of the   *)
(* container's edges: neither call raises, and the loaded container        *)
(* isequal the saved one, also when the saved container holds empty node   *)
(* or edge collections.                                                    *)
C22_SaveLoadRoundTrip ==
  (last.op = "load_graph" /\ last.prev.op = "save_graph"
     /\ last.prev.name = last.name
     /\ last.prev.file_format \in {"tsv", "gzip", "binary"}) =>
    /\ last.prev.exc = ""
    /\ last.exc = ""
    /\ PubNet_isequal(heap, nets["a"], nets["b"]) = True

(* C25: a save_graph(name, data_dir, overwrite=True) call that raises      *)
(* leaves the files of the graph stored before under that name, and a call *)
(* for a name without a directory returns without error and leaves a file  *)
(* for every collection that has rows.                                     *)
C25_OverwriteKeepsData ==
  (last.op = "save_graph" /\ last.overwrite /\ last.name # None) =>
    LET path == graph_path(last.name, DataDir)
        a == nets["a"]
    IN /\ last.exc # "" => Disk[path] = last.disk[path]
       /\ ~last.disk[path].exists =>
            /\ last.exc = ""
            /\ \A n \in SeqSet(a.nodes) :
                 Node___len__(heap[a.node_data[n]]) > 0 =>
                   \E f \in Disk[path].files : f.type = "node" /\ f.key = n

====
